---------------------------- MODULE Spec2Model ----------------------------
(***************************************************************************)
(* A model of the planning engine of emersonmde/planner: the allocation    *)
(* ledger (cell mutations of PlanState.allocations), the project date      *)
(* propagator, the sprint calendar arithmetic and the export/import        *)
(* envelope.                                                               *)
(*                                                                         *)
(* Representation.                                                         *)
(*   - A NaiveDate is the number of days since 2024-01-01 (an integer,     *)
(*     negative before it); Duration::days/weeks are integer additions.    *)
(*   - A Uuid is a small natural number.                                   *)
(*   - An f32 percentage, estimate or capacity is an integer: every value  *)
(*     the modelled code produces (100.0, the slider's multiples of 5, the *)
(*     sample's 60.0/40.0, 100.0 - p) is an integer that f32 holds         *)
(*     exactly, so sums and differences are exact.                         *)
(*   - Option<T> is a sequence: << >> is None, <<v>> is Some(v).           *)
(*   - A Vec is a sequence, a String is a TLA+ string.                     *)
(*   - PlanMetadata timestamps are logical: a plan is created at instant 0 *)
(*     of its own clock and every mark_modified() moves modified_at to the *)
(*     next instant.                                                       *)
(***************************************************************************)
EXTENDS Integers, Sequences, FiniteSets, TLC

VARIABLES
    preferences,      \* Signal<Preferences>
    plan_state,       \* Signal<PlanState>
    viewing_session,  \* Signal<Option<ViewingSession>>
    storage,          \* localStorage: the items of the two storage keys
    clipboard,        \* AllocationView: Signal<Option<Vec<Assignment>>>
    sample_runs,      \* how many times create_sample_plan has drawn identifiers
    lastOp,           \* the handler that ran last and the bool it returned
    input,            \* arguments of the function under test (function specifications)
    output            \* its result, << >> until it has been applied

vars == <<preferences, plan_state, viewing_session, storage, clipboard, sample_runs, lastOp,
         input, output>>

None == << >>
Some(v) == <<v>>

\* Result<T, E>
Ok(v) == <<"Ok", v>>
Err(e) == <<"Err", e>>
IsOk(r) == r[1] = "Ok"
Unit == << >>

-----------------------------------------------------------------------------
(* Generic helpers over sequences.                                         *)

Range(s) == {s[i] : i \in 1..Len(s)}

\* Vec::retain / Iterator::filter is SelectSeq(s, Keep) of Sequences.

\* Iterator::map.
MapSeq(s, F(_)) == [i \in 1..Len(s) |-> F(s[i])]

\* The index of the first element satisfying P, 0 when there is none
\* (Iterator::find / Iterator::position).
FirstIndex(s, P(_)) ==
    IF \E i \in 1..Len(s) : P(s[i])
    THEN CHOOSE i \in 1..Len(s) : P(s[i]) /\ \A j \in 1..(i - 1) : ~P(s[j])
    ELSE 0

\* slice::sort on a Vec<NaiveDate>: insertion of each element in order.
RECURSIVE InsertSorted(_, _)
InsertSorted(x, s) ==
    IF s = << >> THEN <<x>>
    ELSE IF x <= Head(s) THEN <<x>> \o s
         ELSE <<Head(s)>> \o InsertSorted(x, Tail(s))

RECURSIVE SortDates(_)
SortDates(s) ==
    IF s = << >> THEN << >> ELSE InsertSorted(Head(s), SortDates(Tail(s)))

-----------------------------------------------------------------------------
(* chrono::NaiveDate as a day number.                                      *)

EpochYear == 2024

IsLeapYear(y) == (y % 4 = 0 /\ y % 100 # 0) \/ y % 400 = 0

DaysInYear(y) == IF IsLeapYear(y) THEN 366 ELSE 365

DaysInMonth(y, m) ==
    CASE m \in {1, 3, 5, 7, 8, 10, 12} -> 31
      [] m \in {4, 6, 9, 11} -> 30
      [] OTHER -> IF IsLeapYear(y) THEN 29 ELSE 28

RECURSIVE DaysBeforeYear(_)
DaysBeforeYear(y) ==
    IF y = EpochYear THEN 0
    ELSE IF y > EpochYear THEN DaysBeforeYear(y - 1) + DaysInYear(y - 1)
         ELSE DaysBeforeYear(y + 1) - DaysInYear(y)

RECURSIVE DaysBeforeMonth(_, _)
DaysBeforeMonth(y, m) ==
    IF m = 1 THEN 0 ELSE DaysBeforeMonth(y, m - 1) + DaysInMonth(y, m - 1)

\* NaiveDate::from_ymd_opt(y, m, d).unwrap() for a valid date.
Ymd(y, m, d) == DaysBeforeYear(y) + DaysBeforeMonth(y, m) + (d - 1)

DaysPerWeek == 7

-----------------------------------------------------------------------------
(* Sprint calendar arithmetic (crates/planner-core/src/utils/date_helpers.rs). *)

\* i64 `/`: the quotient truncated toward zero.
TruncDiv(a, b) == IF a >= 0 THEN a \div b ELSE -((-a) \div b)

\* The width of usize on the build the tests run on (a 64-bit native target).
UsizeBits == 64

\* 2^e mod m, computed without forming 2^e.
RECURSIVE Pow2Mod(_, _)
Pow2Mod(e, m) == IF e = 0 THEN 1 % m ELSE (2 * Pow2Mod(e - 1, m)) % m

\* `((week_index as usize / len) * len) as i64` for the i64 week_index q.
\* For q >= 0 the casts change nothing.  For q < 0 the cast to usize yields
\* U = 2^UsizeBits + q; U / len * len = U - (U mod len), which does not
\* overflow, and the cast back to i64 subtracts 2^UsizeBits again, leaving
\* q - (U mod len), with U mod len = ((2^UsizeBits mod len) + q) mod len.
SprintWeekOffset(q, len) ==
    IF q >= 0 THEN (q \div len) * len
    ELSE q - ((Pow2Mod(UsizeBits, len) + (q % len)) % len)

\* get_sprint_boundaries(week_start, quarter_start, sprint_length_weeks):
\* the pair <<sprint_start, sprint_end>>.
get_sprint_boundaries(week_start, quarter_start, sprint_length_weeks) ==
    LET days_since_quarter_start == week_start - quarter_start
        week_index == TruncDiv(days_since_quarter_start, DaysPerWeek)
        sprint_start == quarter_start
                        + DaysPerWeek * SprintWeekOffset(week_index, sprint_length_weeks)
        sprint_end == sprint_start + DaysPerWeek * sprint_length_weeks - 1
    IN  <<sprint_start, sprint_end>>

-----------------------------------------------------------------------------
(* Domain entities (crates/planner-core/src/models/plan.rs, plan_state.rs,  *)
(* src/src/models/preferences.rs).                                         *)

\* TeamMember { id, name, role, capacity }; the id is given, not drawn.
TeamMember(id, name, role, capacity) ==
    [id |-> id, name |-> name, role |-> role, capacity |-> capacity]

\* RoadmapProject::new: notes start as None.
RoadmapProject(id, name, eng, sci, start_date, launch_date, color) ==
    [id |-> id, name |-> name, eng_estimate |-> eng, sci_estimate |-> sci,
     start_date |-> start_date, launch_date |-> launch_date, color |-> color,
     notes |-> None]

\* TechnicalProject::new: expected_completion and notes start as None.
TechnicalProject(id, name, roadmap_project_id, eng, sci, start_date) ==
    [id |-> id, name |-> name, roadmap_project_id |-> roadmap_project_id,
     eng_estimate |-> eng, sci_estimate |-> sci, start_date |-> start_date,
     expected_completion |-> None, notes |-> None]

\* VALID_PERCENTAGE_RANGE = 0.0..=100.0
MinPercentage == 0
MaxPercentage == 100

\* Assignment::new panics outside VALID_PERCENTAGE_RANGE; every caller in the
\* model passes a percentage inside it (AssignmentNewPanics states the test).
AssignmentNewPanics(percentage) ==
    ~(MinPercentage <= percentage /\ percentage <= MaxPercentage)

Assignment(technical_project_id, percentage) ==
    [technical_project_id |-> technical_project_id, percentage |-> percentage]

\* Allocation::new: no assignments.
Allocation(team_member_id, week_start_date) ==
    [team_member_id |-> team_member_id, week_start_date |-> week_start_date,
     assignments |-> << >>]

RECURSIVE SumPercentages(_)
SumPercentages(assignments) ==
    IF assignments = << >> THEN 0
    ELSE Head(assignments).percentage + SumPercentages(Tail(assignments))

\* Allocation::total_percentage
total_percentage(alloc) == SumPercentages(alloc.assignments)

\* Allocation::is_empty
is_empty(alloc) == alloc.assignments = << >>

\* Allocation::percentage_equals(target): |total - target| < PERCENTAGE_EPSILON
\* (0.01); on integer percentages that is equality.
percentage_equals(alloc, target) == total_percentage(alloc) = target

\* Allocation::is_valid
is_valid(alloc) == is_empty(alloc) \/ percentage_equals(alloc, MaxPercentage)

\* PlanMetadata::new
NewMetadata == [version |-> "1.0", created_at |-> 0, modified_at |-> 0]

\* PlanMetadata::mark_modified
MetadataMarkModified(metadata) ==
    [metadata EXCEPT !.modified_at = metadata.modified_at + 1]

\* PlanState::new
NewPlanState(quarter_name, quarter_start_date, num_weeks) ==
    [quarter_name |-> quarter_name, quarter_start_date |-> quarter_start_date,
     num_weeks |-> num_weeks, roadmap_projects |-> << >>,
     technical_projects |-> << >>, allocations |-> << >>,
     metadata |-> NewMetadata]

\* PlanState::mark_modified
mark_modified(state) ==
    [state EXCEPT !.metadata = MetadataMarkModified(state.metadata)]

\* PlanState::get_technical_project(id).is_some()
HasTechnicalProject(state, id) ==
    \E i \in 1..Len(state.technical_projects) : state.technical_projects[i].id = id

\* The cell key test of every retain/filter closure:
\* a.team_member_id == team_member_id && a.week_start_date == week_start
AtCell(a, team_member_id, week_start) ==
    a.team_member_id = team_member_id /\ a.week_start_date = week_start

\* a.assignments.iter().any(|a| a.technical_project_id == id)
AssignsProject(alloc, id) ==
    \E i \in 1..Len(alloc.assignments) : alloc.assignments[i].technical_project_id = id

-----------------------------------------------------------------------------
(* Project date propagator                                                 *)
(* (crates/planner-core/src/models/plan_state.rs).                         *)

\* The week_start_date of every Allocation holding an assignment to the
\* project, in list order (the filter/map/collect of lines 273-283).
AllocationWeeks(state, technical_project_id) ==
    MapSeq(SelectSeq(state.allocations,
                     LAMBDA alloc : AssignsProject(alloc, technical_project_id)),
           LAMBDA alloc : alloc.week_start_date)

\* The weeks left in list order.
KeepListOrder(allocation_weeks) == allocation_weeks

\* allocation_weeks.sort()
SortAllocationWeeks(allocation_weeks) == SortDates(allocation_weeks)

\* A propagator that stamps the plan whether or not the project is allocated.
StampUnconditionally(state, technical_project_id, sprint_anchor_date, sprint_length_weeks) ==
    mark_modified(state)

\* PlanState::update_technical_project_dates: the PlanState afterwards.
update_technical_project_dates(state, technical_project_id, sprint_anchor_date, sprint_length_weeks) ==
    LET allocation_weeks == AllocationWeeks(state, technical_project_id)
    IN  IF allocation_weeks = << >> THEN state
        ELSE
          LET sorted == SortAllocationWeeks(allocation_weeks)
              first_week == sorted[1]
              last_week == sorted[Len(sorted)]
              first_sprint_start ==
                  get_sprint_boundaries(first_week, sprint_anchor_date,
                                        sprint_length_weeks)[1]
              last_sprint_end ==
                  get_sprint_boundaries(last_week, sprint_anchor_date,
                                        sprint_length_weeks)[2]
              idx == FirstIndex(state.technical_projects,
                                LAMBDA p : p.id = technical_project_id)
          IN  IF idx = 0 THEN state
              ELSE mark_modified(
                     [state EXCEPT
                        !.technical_projects[idx].start_date = first_sprint_start,
                        !.technical_projects[idx].expected_completion =
                            Some(last_sprint_end)])

\* `for project_id in ids { p.update_technical_project_dates(..) }`
RECURSIVE UpdateDatesForEach(_, _, _, _)
UpdateDatesForEach(state, ids, sprint_anchor, sprint_length) ==
    IF ids = << >> THEN state
    ELSE UpdateDatesForEach(
           update_technical_project_dates(state, Head(ids), sprint_anchor,
                                          sprint_length),
           Tail(ids), sprint_anchor, sprint_length)

-----------------------------------------------------------------------------
(* Cell mutations.                                                         *)

\* Every technical_project_id assigned in the Allocations at the cell, in
\* list order: filter(at cell).flat_map(assignments).map(project id).
RECURSIVE ProjectsAtCell(_, _, _)
ProjectsAtCell(allocations, team_member_id, week_start) ==
    IF allocations = << >> THEN << >>
    ELSE (IF AtCell(Head(allocations), team_member_id, week_start)
          THEN MapSeq(Head(allocations).assignments,
                      LAMBDA a : a.technical_project_id)
          ELSE << >>)
         \o ProjectsAtCell(Tail(allocations), team_member_id, week_start)

\* A retain that drops nothing.
RetainEverything(allocations, team_member_id, week_start) == allocations

\* A retain that compares the team member only: it drops the member's
\* whole column of weeks.
RemoveMemberWeeks(allocations, team_member_id, week_start) ==
    SelectSeq(allocations, LAMBDA a : a.team_member_id # team_member_id)

\* p.allocations.retain(|a| !(at cell))
RemoveCell(allocations, team_member_id, week_start) ==
    SelectSeq(allocations, LAMBDA a : ~AtCell(a, team_member_id, week_start))

\* A replacement whose retain compares the week only: it drops the whole
\* row of the grid.
ReplaceWeekRow(allocations, team_member_id, week_start, assignments) ==
    Append(SelectSeq(allocations, LAMBDA a : a.week_start_date # week_start),
           [Allocation(team_member_id, week_start) EXCEPT
               !.assignments = assignments])

\* retain, then push an Allocation::new carrying the given assignments.
ReplaceCell(allocations, team_member_id, week_start, assignments) ==
    Append(RemoveCell(allocations, team_member_id, week_start),
           [Allocation(team_member_id, week_start) EXCEPT
               !.assignments = assignments])

\* The HashMap<(member, week), &Allocation> the view collects: a later
\* Allocation with the same key replaces an earlier one.  << >> when the
\* key is absent, else <<allocation>>.
AllocationMapGet(allocations, team_member_id, week_start) ==
    LET at == SelectSeq(allocations,
                        LAMBDA a : AtCell(a, team_member_id, week_start))
    IN  IF at = << >> THEN None ELSE Some(at[Len(at)])

\* SelectedProject::None and SelectedProject::Technical(id).
SelectedNone == None
Technical(id) == Some(id)

\* A paintbrush that validates after it has written: the cell is replaced
\* whether or not the project exists.
allocate_then_validate(state, selected_project, team_member_id, week_start, sprint_anchor, sprint_length) ==
    IF selected_project = SelectedNone
    THEN [ok |-> TRUE,
          state |-> UpdateDatesForEach(
                        [state EXCEPT !.allocations =
                            RemoveCell(state.allocations, team_member_id, week_start)],
                        ProjectsAtCell(state.allocations, team_member_id, week_start),
                        sprint_anchor, sprint_length)]
    ELSE [ok |-> HasTechnicalProject(state, selected_project[1]),
          state |-> UpdateDatesForEach(
                        update_technical_project_dates(
                            [state EXCEPT !.allocations =
                                ReplaceCell(state.allocations, team_member_id, week_start,
                                            <<Assignment(selected_project[1],
                                                         MaxPercentage)>>)],
                            selected_project[1], sprint_anchor, sprint_length),
                        SelectSeq(ProjectsAtCell(state.allocations, team_member_id,
                                                 week_start),
                                  LAMBDA prev : prev # selected_project[1]),
                        sprint_anchor, sprint_length)]

\* paintbrush::allocate_project_to_cell (crates/planner-app): the returned
\* bool and the PlanState afterwards.
allocate_project_to_cell(state, selected_project, team_member_id, week_start, sprint_anchor, sprint_length) ==
    IF selected_project = SelectedNone
    THEN LET affected_projects ==
                 ProjectsAtCell(state.allocations, team_member_id, week_start)
             removed == [state EXCEPT !.allocations =
                             RemoveCell(state.allocations, team_member_id, week_start)]
         IN  [ok |-> TRUE,
              state |-> UpdateDatesForEach(removed, affected_projects,
                                           sprint_anchor, sprint_length)]
    ELSE LET project_id == selected_project[1]
         IN  IF ~HasTechnicalProject(state, project_id)
             THEN [ok |-> FALSE, state |-> state]
             ELSE
               LET previous_projects ==
                       ProjectsAtCell(state.allocations, team_member_id, week_start)
                   replaced == [state EXCEPT !.allocations =
                                   ReplaceCell(state.allocations, team_member_id,
                                               week_start,
                                               <<Assignment(project_id, MaxPercentage)>>)]
                   updated == update_technical_project_dates(
                                  replaced, project_id, sprint_anchor, sprint_length)
               IN  [ok |-> TRUE,
                    state |-> UpdateDatesForEach(
                                  updated,
                                  SelectSeq(previous_projects,
                                            LAMBDA prev : prev # project_id),
                                  sprint_anchor, sprint_length)]

\* AllocationView handlers that clear a cell (Delete/Backspace,
\* MenuAction::ClearAssignment): retain only.
ClearCell(state, team_member_id, week_start) ==
    [state EXCEPT !.allocations =
        RemoveCell(state.allocations, team_member_id, week_start)]

\* handle_assign_apply / handle_panel_project_select in assign mode.
AssignCell(state, team_member_id, week_start, proj_id) ==
    [state EXCEPT !.allocations =
        ReplaceCell(state.allocations, team_member_id, week_start,
                    <<Assignment(proj_id, MaxPercentage)>>)]

\* handle_split_apply's plan.with_mut.
SplitCell(state, team_member_id, week_start, proj1_id, proj2_id, split_percentage) ==
    [state EXCEPT !.allocations =
        ReplaceCell(state.allocations, team_member_id, week_start,
                    <<Assignment(proj1_id, split_percentage),
                      Assignment(proj2_id, MaxPercentage - split_percentage)>>)]

\* Cmd/Ctrl+V's plan.with_mut.
PasteCell(state, team_member_id, week_start, assignments) ==
    [state EXCEPT !.allocations =
        ReplaceCell(state.allocations, team_member_id, week_start, assignments)]

\* A delete that drops every Allocation assigning the project, the other
\* half of a split cell with it.
delete_with_allocations(state, id) ==
    mark_modified(
      [state EXCEPT
         !.allocations = SelectSeq(state.allocations,
                                   LAMBDA alloc : ~AssignsProject(alloc, id)),
         !.technical_projects =
             SelectSeq(state.technical_projects, LAMBDA p : p.id # id)])

\* TechnicalView's delete confirmation: strip the project's assignments,
\* drop the Allocations left empty, drop the project, mark modified.
DeleteTechnicalProject(state, id) ==
    LET stripped == MapSeq(state.allocations,
                      LAMBDA alloc : [alloc EXCEPT !.assignments =
                          SelectSeq(alloc.assignments,
                                    LAMBDA a : a.technical_project_id # id)])
        kept == SelectSeq(stripped, LAMBDA alloc : ~is_empty(alloc))
    IN  mark_modified(
          [state EXCEPT
             !.allocations = kept,
             !.technical_projects =
                 SelectSeq(state.technical_projects, LAMBDA p : p.id # id)])

-----------------------------------------------------------------------------
(* Quarter helpers and the sample plan                                     *)
(* (date_helpers.rs, crates/planner-app/src/state.rs).                     *)

\* get_quarter_start_date(year, quarter): None outside 1..4.
get_quarter_start_date(year, quarter) ==
    CASE quarter = 1 -> Some(Ymd(year, 1, 1))
      [] quarter = 2 -> Some(Ymd(year, 4, 1))
      [] quarter = 3 -> Some(Ymd(year, 7, 1))
      [] quarter = 4 -> Some(Ymd(year, 10, 1))
      [] OTHER -> None

\* Uuid::new_v4(): the n-th identifier drawn by the k-th run of
\* create_sample_plan.  Runs never share an identifier.
UuidsPerSample == 12
NewUuid(k, n) == k * UuidsPerSample + n

\* The sprint configuration create_sample_plan and into_signals write.
DefaultSprintAnchor == Ymd(2024, 1, 1)
DefaultSprintLength == 2
DefaultCapacity == 12
StandardQuarterWeeks == 13

\* create_sample_plan(): <<Preferences, PlanState>>, with the identifiers of
\* run k.
create_sample_plan(k) ==
    LET quarter_start == get_quarter_start_date(2025, 1)[1]
        alice_id == NewUuid(k, 1)
        bob_id == NewUuid(k, 2)
        carol_id == NewUuid(k, 3)
        dave_id == NewUuid(k, 4)
        platform_roadmap_id == NewUuid(k, 5)
        payment_roadmap_id == NewUuid(k, 6)
        data_roadmap_id == NewUuid(k, 7)
        auth_tech_id == NewUuid(k, 8)
        payment_tech_id == NewUuid(k, 9)
        ml_tech_id == NewUuid(k, 10)
        data_pipe_tech_id == NewUuid(k, 11)
        research_tech_id == NewUuid(k, 12)
        Week(week_num) == quarter_start + DaysPerWeek * week_num
        Full(member, week_num, project) ==
            [Allocation(member, Week(week_num)) EXCEPT
                !.assignments = <<Assignment(project, 100)>>]
        prefs ==
            [schema_version |-> "1.0",
             team_name |-> "Engineering Team",
             team_members |->
                <<TeamMember(alice_id, "Alice Kim", "eng", 12),
                  TeamMember(bob_id, "Bob Martinez", "eng", 12),
                  TeamMember(carol_id, "Carol Smith", "sci", 6),
                  TeamMember(dave_id, "Dave Roberts", "eng", 12)>>,
             sprint_anchor_date |-> DefaultSprintAnchor,
             sprint_length_weeks |-> DefaultSprintLength,
             default_capacity |-> DefaultCapacity]
        state ==
            [NewPlanState("Q1 2025", quarter_start, StandardQuarterWeeks) EXCEPT
               !.roadmap_projects =
                  <<RoadmapProject(platform_roadmap_id, "Q1 Platform Improvements",
                                   24, 8, Ymd(2025, 1, 6), Ymd(2025, 3, 31), "Blue"),
                    RoadmapProject(payment_roadmap_id, "Payment Gateway",
                                   8, 0, Ymd(2025, 1, 6), Ymd(2025, 2, 28), "Green"),
                    RoadmapProject(data_roadmap_id, "Data Pipeline Overhaul",
                                   16, 6, Ymd(2025, 1, 20), Ymd(2025, 3, 31), "Yellow")>>,
               !.technical_projects =
                  <<TechnicalProject(auth_tech_id, "Auth Service Refactor",
                                     Some(platform_roadmap_id), 6, 0, Ymd(2025, 1, 6)),
                    TechnicalProject(payment_tech_id, "Payment API Integration",
                                     Some(payment_roadmap_id), 8, 0, Ymd(2025, 1, 6)),
                    TechnicalProject(ml_tech_id, "ML Pipeline Optimization",
                                     Some(platform_roadmap_id), 6, 6, Ymd(2025, 1, 6)),
                    TechnicalProject(data_pipe_tech_id, "Data Pipeline Migration",
                                     Some(data_roadmap_id), 6, 4, Ymd(2025, 1, 20)),
                    TechnicalProject(research_tech_id, "Algorithm Research",
                                     Some(data_roadmap_id), 0, 6, Ymd(2025, 1, 6))>>,
               !.allocations =
                  <<Full(alice_id, 0, payment_tech_id),
                    Full(alice_id, 1, payment_tech_id),
                    Full(alice_id, 2, payment_tech_id),
                    [Allocation(alice_id, Week(3)) EXCEPT
                        !.assignments = <<Assignment(payment_tech_id, 60),
                                          Assignment(data_pipe_tech_id, 40)>>],
                    Full(bob_id, 0, ml_tech_id),
                    Full(bob_id, 1, ml_tech_id),
                    Full(bob_id, 2, ml_tech_id),
                    Full(bob_id, 3, ml_tech_id),
                    Full(carol_id, 0, research_tech_id),
                    Full(carol_id, 1, research_tech_id),
                    Allocation(carol_id, Week(2)),
                    Full(carol_id, 3, research_tech_id),
                    Full(dave_id, 0, auth_tech_id),
                    Full(dave_id, 1, auth_tech_id),
                    Full(dave_id, 2, auth_tech_id)>>]
    IN  <<prefs, state>>

\* A week list whose sprint number is computed from the week number.
sprints_from_week_number(quarter_start, num_weeks, sprint_length_weeks) ==
    [n \in 1..num_weeks |->
        [start_date |-> quarter_start + DaysPerWeek * (n - 1),
         week_number |-> n,
         sprint_number |-> (n \div sprint_length_weeks) + 1,
         total_weeks |-> num_weeks,
         sprint_length_weeks |-> sprint_length_weeks]]

\* generate_quarter_weeks(quarter_start, num_weeks, sprint_length_weeks)
generate_quarter_weeks(quarter_start, num_weeks, sprint_length_weeks) ==
    [n \in 1..num_weeks |->
        LET week_index == n - 1
        IN  [start_date |-> quarter_start + DaysPerWeek * week_index,
             week_number |-> week_index + 1,
             sprint_number |-> (week_index \div sprint_length_weeks) + 1,
             total_weeks |-> num_weeks,
             sprint_length_weeks |-> sprint_length_weeks]]

\* NaiveDate::year()
YearOf(date) ==
    CHOOSE y \in (EpochYear - 4)..(EpochYear + 4) :
        Ymd(y, 1, 1) <= date /\ date < Ymd(y + 1, 1, 1)

\* The first quarter in 1..4 whose start is >= today, 0 when there is none
\* (the for loop of get_next_quarter_info).
FirstQuarterFrom(year, today) ==
    IF \E q \in 1..4 : get_quarter_start_date(year, q)[1] >= today
    THEN CHOOSE q \in 1..4 :
            /\ get_quarter_start_date(year, q)[1] >= today
            /\ \A r \in 1..(q - 1) : get_quarter_start_date(year, r)[1] < today
    ELSE 0

\* A search for the first quarter that starts after today.
next_quarter_after(today) ==
    LET year == YearOf(today)
        later == {q \in 1..4 : get_quarter_start_date(year, q)[1] > today}
    IN  IF later # {}
        THEN LET quarter == CHOOSE q \in later : \A r \in later : q <= r
             IN  <<year, quarter, get_quarter_start_date(year, quarter)[1],
                   "Q" \o ToString(quarter) \o " " \o ToString(year)>>
        ELSE <<year + 1, 1, get_quarter_start_date(year + 1, 1)[1],
               "Q1 " \o ToString(year + 1)>>

\* get_next_quarter_info(today): (year, quarter, start_date, name).
get_next_quarter_info(today) ==
    LET year == YearOf(today)
        quarter == FirstQuarterFrom(year, today)
    IN  IF quarter # 0
        THEN <<year, quarter, get_quarter_start_date(year, quarter)[1],
               "Q" \o ToString(quarter) \o " " \o ToString(year)>>
        ELSE <<year + 1, 1, get_quarter_start_date(year + 1, 1)[1],
               "Q1 " \o ToString(year + 1)>>

\* Preferences::default() = Preferences::new("My Team") on the day `today`.
DefaultPreferences(today) ==
    [schema_version |-> "1.0",
     team_name |-> "My Team",
     team_members |-> << >>,
     sprint_anchor_date |-> get_next_quarter_info(today)[3],
     sprint_length_weeks |-> DefaultSprintLength,
     default_capacity |-> DefaultCapacity]

\* PlanState::default() on the day `today`.
DefaultPlanState(today) ==
    NewPlanState(get_next_quarter_info(today)[4], get_next_quarter_info(today)[3],
                 StandardQuarterWeeks)

-----------------------------------------------------------------------------
(* The planning session: the signals and the handlers that write them.     *)

\* Bounds of the exploration.
MaxSampleLoads == 1   \* runs of create_sample_plan
MaxModified == 1      \* handlers that mark the plan modified stop at this instant

\* The days the application may be started on.
Todays == {Ymd(2024, 12, 30), Ymd(2025, 1, 2)}

\* The cells of the grid (position in preferences.team_members, position in
\* the quarter's weeks) and the palette entries (the order in which
\* create_sample_plan draws the projects' identifiers) the session edits.
EditPositions == {<<1, 4>>, <<3, 3>>}
PaletteSlots == {9, 11}
SplitPercentages == {50}

PaletteIds == {NewUuid(k, n) : k \in 1..MaxSampleLoads, n \in PaletteSlots}

\* The cells of the grid the session edits: (team member id, week start).
EditCells ==
    LET weeks == generate_quarter_weeks(plan_state.quarter_start_date,
                                        plan_state.num_weeks,
                                        preferences.sprint_length_weeks)
    IN  {<<preferences.team_members[at[1]].id, weeks[at[2]].start_date>> :
            at \in {e \in EditPositions : /\ e[1] \in DOMAIN preferences.team_members
                                          /\ e[2] \in DOMAIN weeks}}

\* The projects the panel and the modals list: plan.technical_projects.
ListedProjects ==
    {plan_state.technical_projects[i].id : i \in DOMAIN plan_state.technical_projects}
        \cap PaletteIds

Did(op, ok) == [op |-> op, ok |-> ok]

Idle == input = None /\ output = None

\* A JSON text is its layout and the document it spells: a PlanExport, or
\* something serde cannot read as one (the document is then << >>).
JsonText(layout, doc) == [layout |-> layout, doc |-> doc]

\* serde_json::from_str::<PlanExport>
from_str(json) ==
    IF json.doc = None THEN Err("expected value") ELSE Ok(json.doc[1])

\* serde_json::to_string: the compact layout.
to_string(export) == JsonText("compact", Some(export))

\* localStorage (src/storage/mod.rs): the item under each key, absent
\* (<< >>) or the JSON text saved last.
EmptyStorage == [preferences |-> None, plan_state |-> None]

\* storage::save_preferences / save_plan_state
save_preferences(store, prefs) == [store EXCEPT !.preferences = Some(to_string(prefs))]
save_plan_state(store, state) == [store EXCEPT !.plan_state = Some(to_string(state))]

\* storage::load_preferences / load_plan_state
LoadItem(item) ==
    IF item = None THEN None
    ELSE IF IsOk(from_str(item[1])) THEN Some(from_str(item[1])[2]) ELSE None

load_preferences(store) == LoadItem(store.preferences)
load_plan_state(store) == LoadItem(store.plan_state)

\* storage::clear_preferences / clear_plan_state
clear_preferences(store) == [store EXCEPT !.preferences = None]
clear_plan_state(store) == [store EXCEPT !.plan_state = None]

\* Effects that save although a viewing session is open.
SaveAlways(store, prefs, state, viewing) ==
    save_plan_state(save_preferences(store, prefs), state)

\* App's two auto-save effects: they run after a handler has written the
\* signals and save unless a viewing session is open.
AutoSaveEffects(store, prefs, state, viewing) ==
    IF viewing = None THEN save_plan_state(save_preferences(store, prefs), state)
    ELSE store

AutoSave == storage' = AutoSaveEffects(storage, preferences', plan_state', viewing_session')

Init ==
    /\ \E today \in Todays :
          /\ preferences = DefaultPreferences(today)
          /\ plan_state = DefaultPlanState(today)
    /\ viewing_session = None
    /\ storage = AutoSaveEffects(EmptyStorage, preferences, plan_state, viewing_session)
    /\ clipboard = None
    /\ sample_runs = 0
    /\ lastOp = Did("start", TRUE)
    /\ Idle

\* TopNav on_load_sample_data.
LoadSampleData ==
    /\ Idle
    /\ sample_runs < MaxSampleLoads
    /\ sample_runs' = sample_runs + 1
    /\ preferences' = create_sample_plan(sample_runs + 1)[1]
    /\ plan_state' = create_sample_plan(sample_runs + 1)[2]
    /\ lastOp' = Did("LoadSampleData", TRUE)
    /\ UNCHANGED <<viewing_session, clipboard, input, output>>
    /\ AutoSave

\* AllocationView allocate_to_cell in paintbrush mode: one cell painted
\* with the selected project (or with SelectedProject::None).
PaintCell ==
    /\ Idle
    /\ plan_state.metadata.modified_at < MaxModified
    /\ \E cell \in EditCells :
       \E selected \in {SelectedNone} \cup {Technical(id) : id \in PaletteIds} :
          LET r == allocate_project_to_cell(plan_state, selected, cell[1], cell[2],
                                            preferences.sprint_anchor_date,
                                            preferences.sprint_length_weeks)
          IN  /\ plan_state' = r.state
              /\ lastOp' = Did("PaintCell", r.ok)
    /\ UNCHANGED <<preferences, viewing_session, clipboard, sample_runs, input, output>>
    /\ AutoSave

\* handle_keydown, Delete/Backspace on the focused cell.
KeyDelete ==
    /\ Idle
    /\ \E cell \in EditCells :
          plan_state' = ClearCell(plan_state, cell[1], cell[2])
    /\ lastOp' = Did("KeyDelete", TRUE)
    /\ UNCHANGED <<preferences, viewing_session, clipboard, sample_runs, input, output>>
    /\ AutoSave

\* handle_keydown, Cmd/Ctrl+C on the focused cell.
KeyCopy ==
    /\ Idle
    /\ \E cell \in EditCells :
          LET found == AllocationMapGet(plan_state.allocations, cell[1], cell[2])
          IN  clipboard' = IF found # None THEN Some(found[1].assignments)
                           ELSE clipboard
    /\ lastOp' = Did("KeyCopy", TRUE)
    /\ UNCHANGED <<preferences, plan_state, viewing_session, sample_runs, input, output>>
    /\ AutoSave

\* handle_keydown, Cmd/Ctrl+V on the focused cell.
KeyPaste ==
    /\ Idle
    /\ \E cell \in EditCells :
          plan_state' = IF clipboard # None
                        THEN PasteCell(plan_state, cell[1], cell[2], clipboard[1])
                        ELSE plan_state
    /\ lastOp' = Did("KeyPaste", TRUE)
    /\ UNCHANGED <<preferences, viewing_session, clipboard, sample_runs, input, output>>
    /\ AutoSave

\* handle_context_action(MenuAction::ClearAssignment); the menu offers the
\* entry on a cell that has an allocation.
ContextClear ==
    /\ Idle
    /\ \E cell \in EditCells :
          /\ AllocationMapGet(plan_state.allocations, cell[1], cell[2]) # None
          /\ plan_state' = ClearCell(plan_state, cell[1], cell[2])
    /\ lastOp' = Did("ContextClear", TRUE)
    /\ UNCHANGED <<preferences, viewing_session, clipboard, sample_runs, input, output>>
    /\ AutoSave

\* handle_assign_apply with a project chosen in the modal.
AssignApply ==
    /\ Idle
    /\ \E cell \in EditCells : \E proj_id \in ListedProjects :
          plan_state' = AssignCell(plan_state, cell[1], cell[2], proj_id)
    /\ lastOp' = Did("AssignApply", TRUE)
    /\ UNCHANGED <<preferences, viewing_session, clipboard, sample_runs, input, output>>
    /\ AutoSave

\* handle_split_apply with both projects chosen; nothing happens when they
\* are the same project.
SplitApply ==
    /\ Idle
    /\ \E cell \in EditCells : \E proj1_id \in ListedProjects :
       \E proj2_id \in ListedProjects : \E split_percentage \in SplitPercentages :
          plan_state' = IF proj1_id # proj2_id
                        THEN SplitCell(plan_state, cell[1], cell[2], proj1_id,
                                       proj2_id, split_percentage)
                        ELSE plan_state
    /\ lastOp' = Did("SplitApply", TRUE)
    /\ UNCHANGED <<preferences, viewing_session, clipboard, sample_runs, input, output>>
    /\ AutoSave

\* handle_panel_project_select in assign mode.
PanelProjectSelect ==
    /\ Idle
    /\ \E cell \in EditCells : \E project_id \in ListedProjects :
          plan_state' = AssignCell(plan_state, cell[1], cell[2], project_id)
    /\ lastOp' = Did("PanelProjectSelect", TRUE)
    /\ UNCHANGED <<preferences, viewing_session, clipboard, sample_runs, input, output>>
    /\ AutoSave

\* handle_panel_none_select in assign mode.
PanelNoneSelect ==
    /\ Idle
    /\ \E cell \in EditCells :
          plan_state' = ClearCell(plan_state, cell[1], cell[2])
    /\ lastOp' = Did("PanelNoneSelect", TRUE)
    /\ UNCHANGED <<preferences, viewing_session, clipboard, sample_runs, input, output>>
    /\ AutoSave

\* TechnicalView: the delete confirmation of a listed project.  App renders
\* one view at a time, so AllocationView was dropped with its signals when
\* the Technical view was opened: its clipboard starts empty again.
ConfirmDeleteTechnicalProject ==
    /\ Idle
    /\ plan_state.metadata.modified_at < MaxModified
    /\ \E id \in ListedProjects :
          plan_state' = DeleteTechnicalProject(plan_state, id)
    /\ clipboard' = None
    /\ lastOp' = Did("ConfirmDeleteTechnicalProject", TRUE)
    /\ UNCHANGED <<preferences, viewing_session, sample_runs, input, output>>
    /\ AutoSave

Next ==
    \/ LoadSampleData
    \/ PaintCell
    \/ KeyDelete
    \/ KeyCopy
    \/ KeyPaste
    \/ ContextClear
    \/ AssignApply
    \/ SplitApply
    \/ PanelProjectSelect
    \/ PanelNoneSelect
    \/ ConfirmDeleteTechnicalProject

Spec == Init /\ [][Next]_vars

-----------------------------------------------------------------------------
(* Export/import envelope (src/models/plan_export.rs) and the loader       *)
(* (src/components/layout/top_nav.rs).                                     *)

\* char::is_whitespace, on the characters the inputs use.
Whitespace == {" ", "\t", "\n", "\r"}

\* str::trim_start / str::trim_end
RECURSIVE TrimStart(_)
TrimStart(s) ==
    IF s # "" /\ SubSeq(s, 1, 1) \in Whitespace
    THEN TrimStart(SubSeq(s, 2, Len(s)))
    ELSE s

RECURSIVE TrimEnd(_)
TrimEnd(s) ==
    IF s # "" /\ SubSeq(s, Len(s), Len(s)) \in Whitespace
    THEN TrimEnd(SubSeq(s, 1, Len(s) - 1))
    ELSE s

\* A trim that leaves the whitespace in place.
KeepWhitespace(s) == s

\* str::trim
Trim(s) == TrimEnd(TrimStart(s))

\* An export that packs the plan without its allocations.
ExportWithoutAllocations(prefs, state) ==
    [version |-> state.metadata.version,
     metadata |-> state.metadata,
     team_name |-> prefs.team_name,
     team_members |-> prefs.team_members,
     quarter_name |-> state.quarter_name,
     quarter_start_date |-> state.quarter_start_date,
     num_weeks |-> state.num_weeks,
     roadmap_projects |-> state.roadmap_projects,
     technical_projects |-> state.technical_projects,
     allocations |-> << >>]

\* PlanExport::from_signals
from_signals(prefs, state) ==
    [version |-> state.metadata.version,
     metadata |-> state.metadata,
     team_name |-> prefs.team_name,
     team_members |-> prefs.team_members,
     quarter_name |-> state.quarter_name,
     quarter_start_date |-> state.quarter_start_date,
     num_weeks |-> state.num_weeks,
     roadmap_projects |-> state.roadmap_projects,
     technical_projects |-> state.technical_projects,
     allocations |-> state.allocations]

\* An import that sets one-week sprints.
ImportWithWeeklySprints(export) ==
    <<[schema_version |-> "1.0",
       team_name |-> export.team_name,
       team_members |-> export.team_members,
       sprint_anchor_date |-> Ymd(2024, 1, 1),
       sprint_length_weeks |-> 1,
       default_capacity |-> 12],
      [quarter_name |-> export.quarter_name,
       quarter_start_date |-> export.quarter_start_date,
       num_weeks |-> export.num_weeks,
       roadmap_projects |-> export.roadmap_projects,
       technical_projects |-> export.technical_projects,
       allocations |-> export.allocations,
       metadata |-> export.metadata]>>

\* PlanExport::into_signals: <<Preferences, PlanState>>.  schema_version is
\* not listed by into_signals; it carries the schema's default.
into_signals(export) ==
    <<[schema_version |-> "1.0",
       team_name |-> export.team_name,
       team_members |-> export.team_members,
       sprint_anchor_date |-> Ymd(2024, 1, 1),
       sprint_length_weeks |-> 2,
       default_capacity |-> 12],
      [quarter_name |-> export.quarter_name,
       quarter_start_date |-> export.quarter_start_date,
       num_weeks |-> export.num_weeks,
       roadmap_projects |-> export.roadmap_projects,
       technical_projects |-> export.technical_projects,
       allocations |-> export.allocations,
       metadata |-> export.metadata]>>

\* A loop over the allocations that visits no team member identifier.
NoMemberRefs(allocations) == << >>

\* The identifiers a referential loop of validate visits, in visiting order.
AllocationMemberRefs(allocations) ==
    MapSeq(allocations, LAMBDA allocation : allocation.team_member_id)

RECURSIVE AssignmentProjectRefs(_)
AssignmentProjectRefs(allocations) ==
    IF allocations = << >> THEN << >>
    ELSE MapSeq(Head(allocations).assignments,
                LAMBDA assignment : assignment.technical_project_id)
         \o AssignmentProjectRefs(Tail(allocations))

RECURSIVE RoadmapRefs(_)
RoadmapRefs(technical_projects) ==
    IF technical_projects = << >> THEN << >>
    ELSE Head(technical_projects).roadmap_project_id
         \o RoadmapRefs(Tail(technical_projects))

\* A loop that keeps going and reports the last identifier not among `known`.
LastMissing(refs, known) ==
    LET idx == FirstIndex([i \in 1..Len(refs) |-> refs[Len(refs) + 1 - i]],
                          LAMBDA id : id \notin known)
    IN  IF idx = 0 THEN None ELSE Some(refs[Len(refs) + 1 - idx])

\* The identifier a referential loop returns on: the first visited one that
\* is not among `known`; None when the loop runs to its end.
FirstMissing(refs, known) ==
    LET idx == FirstIndex(refs, LAMBDA id : id \notin known)
    IN  IF idx = 0 THEN None ELSE Some(refs[idx])

Ids(entities) == {entities[i].id : i \in 1..Len(entities)}

\* PlanExport::validate: Ok(()) or Err(ExportValidationError); an error is
\* <<variant>> or <<variant, uuid>>.
validate(export) ==
    LET member_ref == FirstMissing(AllocationMemberRefs(export.allocations),
                                   Ids(export.team_members))
        project_ref == FirstMissing(AssignmentProjectRefs(export.allocations),
                                    Ids(export.technical_projects))
        roadmap_ref == FirstMissing(RoadmapRefs(export.technical_projects),
                                    Ids(export.roadmap_projects))
    IN  IF export.version = "" THEN Err(<<"InvalidVersion">>)
        ELSE IF Trim(export.team_name) = "" THEN Err(<<"EmptyTeamName">>)
        ELSE IF export.team_members = << >> THEN Err(<<"NoTeamMembers">>)
        ELSE IF Trim(export.quarter_name) = "" THEN Err(<<"EmptyQuarterName">>)
        ELSE IF export.num_weeks = 0 THEN Err(<<"InvalidNumWeeks">>)
        ELSE IF member_ref # None
             THEN Err(<<"InvalidTeamMemberReference", member_ref[1]>>)
        ELSE IF project_ref # None
             THEN Err(<<"InvalidTechnicalProjectReference", project_ref[1]>>)
        ELSE IF roadmap_ref # None
             THEN Err(<<"InvalidRoadmapProjectReference", roadmap_ref[1]>>)
        ELSE Ok(Unit)

\* format!("{:?}", e) of an ExportValidationError.
DebugFormat(e) ==
    IF Len(e) = 1 THEN e[1] ELSE e[1] \o "(" \o ToString(e[2]) \o ")"

\* ViewingSession
ViewingSession(filename, original_json, modified) ==
    [filename |-> filename, original_json |-> original_json, modified |-> modified]

\* App's modified-detection effect: while a viewing session is open, its
\* flag says whether the signals still export to original_json.
DetectModified(prefs, state, viewing) ==
    IF viewing = None THEN None
    ELSE LET session == viewing[1]
             current_json == to_string(from_signals(prefs, state))
             is_modified == current_json # session.original_json
         IN  IF is_modified # session.modified
             THEN Some(ViewingSession(session.filename, session.original_json,
                                      is_modified))
             ELSE viewing

\* The three signals load_plan_from_json receives.
Signals(prefs, state, viewing) ==
    [preferences |-> prefs, plan_state |-> state, viewing_session |-> viewing]

\* A loader that opens the viewing session as soon as the text has parsed.
load_plan_session_first(json, filename, prefs_signal, state_signal, viewing_signal) ==
    LET parsed == from_str(json)
    IN  IF ~IsOk(parsed)
        THEN [result |-> Err("Failed to parse: " \o parsed[2]),
              signals |-> Signals(prefs_signal, state_signal, viewing_signal)]
        ELSE
          LET export == parsed[2]
              session == Some(ViewingSession(filename, to_string(export), FALSE))
              validated == validate(export)
          IN  IF ~IsOk(validated)
              THEN [result |-> Err(DebugFormat(validated[2])),
                    signals |-> Signals(prefs_signal, state_signal, session)]
              ELSE [result |-> Ok(Unit),
                    signals |-> Signals(into_signals(export)[1],
                                        into_signals(export)[2], session)]

\* load_plan_from_json: the Result and the three signals afterwards.
load_plan_from_json(json, filename, prefs_signal, state_signal, viewing_signal) ==
    LET parsed == from_str(json)
    IN  IF ~IsOk(parsed)
        THEN [result |-> Err("Failed to parse: " \o parsed[2]),
              signals |-> Signals(prefs_signal, state_signal, viewing_signal)]
        ELSE
          LET export == parsed[2]
              validated == validate(export)
          IN  IF ~IsOk(validated)
              THEN [result |-> Err(DebugFormat(validated[2])),
                    signals |-> Signals(prefs_signal, state_signal, viewing_signal)]
              ELSE
                LET original_json == to_string(export)
                    loaded == into_signals(export)
                IN  [result |-> Ok(Unit),
                     signals |-> Signals(loaded[1], loaded[2],
                                         Some(ViewingSession(filename, original_json,
                                                             FALSE)))]

-----------------------------------------------------------------------------
(* Calls of single functions: Init draws the arguments into `input`, the   *)
(* one action applies the function and stores what it returns in `output`. *)

\* No planning session is running.
NoSession ==
    /\ preferences = None
    /\ plan_state = None
    /\ viewing_session = None
    /\ storage = EmptyStorage
    /\ clipboard = None
    /\ sample_runs = 0
    /\ lastOp = Did("start", TRUE)

(* get_sprint_boundaries ------------------------------------------------- *)

MaxOffsetDays == 30      \* week_start lies within this many days of the anchor
MaxSprintLength == 4     \* the settings accept sprint lengths 1..=4

\* A Monday and a Wednesday.
SprintAnchors == {Ymd(2024, 1, 1), Ymd(2025, 1, 8)}

SprintInputs ==
    {[week_start |-> anchor + offset, quarter_start |-> anchor,
      sprint_length_weeks |-> len] :
        anchor \in SprintAnchors,
        offset \in (-MaxOffsetDays)..MaxOffsetDays,
        len \in 1..MaxSprintLength}

InitSprint == NoSession /\ input \in SprintInputs /\ output = None

CallGetSprintBoundaries ==
    /\ output = None
    /\ output' = Some(get_sprint_boundaries(input.week_start, input.quarter_start,
                                            input.sprint_length_weeks))
    /\ UNCHANGED <<preferences, plan_state, viewing_session, storage, clipboard,
                   sample_runs, lastOp, input>>

SpecSprint == InitSprint /\ [][CallGetSprintBoundaries]_vars

(* update_technical_project_dates ---------------------------------------- *)

MaxDateAllocations == 3  \* allocations in the plan the propagator is called on

\* Mondays of Q1 2025, with gaps between them.
DateWeeks == {Ymd(2025, 1, 6), Ymd(2025, 1, 13), Ymd(2025, 1, 27), Ymd(2025, 2, 10)}

\* Two projects of the plan and an identifier no project carries.
DateProjectA == NewUuid(1, 8)
DateProjectB == NewUuid(1, 12)
DateProjectGone == NewUuid(2, 8)

DateAssignments ==
    {<<Assignment(DateProjectA, 100)>>,
     <<Assignment(DateProjectB, 100)>>,
     <<Assignment(DateProjectA, 50), Assignment(DateProjectB, 50)>>,
     <<Assignment(DateProjectGone, 100)>>}

DateSprintConfigs == {<<Ymd(2024, 1, 1), 2>>, <<Ymd(2025, 1, 8), 3>>}

\* One team member's allocations, in any order, one per week at most.
DateAllocationLists ==
    LET cells == {[Allocation(1, week) EXCEPT !.assignments = assignments] :
                    week \in DateWeeks, assignments \in DateAssignments}
        lists == UNION {[1..n -> cells] : n \in 0..MaxDateAllocations}
    IN  {list \in lists :
            \A i, j \in 1..Len(list) :
                i # j => list[i].week_start_date # list[j].week_start_date}

DatePlan(allocations) ==
    [NewPlanState("Q1 2025", Ymd(2025, 1, 1), StandardQuarterWeeks) EXCEPT
        !.technical_projects =
            <<TechnicalProject(DateProjectA, "Auth Service Refactor", None, 6, 0,
                               Ymd(2025, 1, 6)),
              TechnicalProject(DateProjectB, "Algorithm Research", None, 0, 6,
                               Ymd(2025, 1, 20))>>,
        !.allocations = allocations]

DateInputs ==
    {[state |-> DatePlan(allocations), technical_project_id |-> id,
      sprint_anchor_date |-> config[1], sprint_length_weeks |-> config[2]] :
        allocations \in DateAllocationLists,
        id \in {DateProjectA, DateProjectB, DateProjectGone},
        config \in DateSprintConfigs}

InitDates == NoSession /\ input \in DateInputs /\ output = None

CallUpdateTechnicalProjectDates ==
    /\ output = None
    /\ output' = Some(update_technical_project_dates(
                          input.state, input.technical_project_id,
                          input.sprint_anchor_date, input.sprint_length_weeks))
    /\ UNCHANGED <<preferences, plan_state, viewing_session, storage, clipboard,
                   sample_runs, lastOp, input>>

SpecDates == InitDates /\ [][CallUpdateTechnicalProjectDates]_vars

(* PlanExport::validate -------------------------------------------------- *)

MaxExportAllocations == 2   \* allocations in an export handed to validate

ExportMembers ==
    <<TeamMember(1, "Alice Kim", "eng", 12), TeamMember(2, "Carol Smith", "sci", 6)>>

ExportRoadmap ==
    <<RoadmapProject(11, "Payment Gateway", 8, 0, Ymd(2025, 1, 6), Ymd(2025, 2, 28),
                     "Green")>>

\* Technical projects whose roadmap links resolve, and ones whose links dangle.
ExportTechnicalLists ==
    {<<TechnicalProject(21, "Payment API Integration", Some(11), 8, 0, Ymd(2025, 1, 6)),
       TechnicalProject(22, "Algorithm Research", None, 0, 6, Ymd(2025, 1, 6))>>,
     <<TechnicalProject(21, "Payment API Integration", Some(18), 8, 0, Ymd(2025, 1, 6)),
       TechnicalProject(22, "Algorithm Research", Some(19), 0, 6, Ymd(2025, 1, 6))>>}

\* Allocations of a listed member (1) or of unknown ones (7, 8), unassigned,
\* on a listed project (21) or split between unknown ones (28, 29).
ExportAllocationLists ==
    LET cells == {[Allocation(member, Ymd(2025, 1, 6)) EXCEPT !.assignments = assignments] :
                    member \in {1, 7, 8},
                    assignments \in {<< >>, <<Assignment(21, 100)>>,
                                     <<Assignment(28, 50), Assignment(29, 50)>>}}
    IN  UNION {[1..n -> cells] : n \in 0..MaxExportAllocations}

ExportInputs ==
    {[version |-> version, metadata |-> NewMetadata, team_name |-> team_name,
      team_members |-> team_members, quarter_name |-> quarter_name,
      quarter_start_date |-> Ymd(2025, 1, 1), num_weeks |-> num_weeks,
      roadmap_projects |-> ExportRoadmap, technical_projects |-> technical_projects,
      allocations |-> allocations] :
        version \in {"", "1.0"},
        team_name \in {"", " \t", "Backend Team"},
        team_members \in {<< >>, ExportMembers},
        quarter_name \in {"", "  ", "Q1 2025"},
        num_weeks \in {0, StandardQuarterWeeks},
        technical_projects \in ExportTechnicalLists,
        allocations \in ExportAllocationLists}

InitValidate == NoSession /\ input \in ExportInputs /\ output = None

CallValidate ==
    /\ output = None
    /\ output' = Some(validate(input))
    /\ UNCHANGED <<preferences, plan_state, viewing_session, storage, clipboard,
                   sample_runs, lastOp, input>>

SpecValidate == InitValidate /\ [][CallValidate]_vars

(* load_plan_from_json --------------------------------------------------- *)

\* An export that validates: the sample plan as from_signals packs it.
SampleExport == from_signals(create_sample_plan(1)[1], create_sample_plan(1)[2])

\* The documents of the files offered to the loader: unreadable, valid, and
\* one failing each group of validate's checks.
ImportDocuments ==
    {None,
     Some(SampleExport),
     Some([SampleExport EXCEPT !.team_name = "Data Science"]),
     Some([SampleExport EXCEPT !.version = ""]),
     Some([SampleExport EXCEPT !.team_name = " "]),
     Some([SampleExport EXCEPT !.team_members = << >>]),
     Some([SampleExport EXCEPT !.num_weeks = 0]),
     Some([SampleExport EXCEPT !.allocations[1].team_member_id = NewUuid(2, 1)]),
     Some([SampleExport EXCEPT !.technical_projects = Tail(@)]),
     Some([SampleExport EXCEPT !.roadmap_projects = << >>])}

ImportFiles ==
    {[filename |-> filename, json |-> JsonText(layout, doc)] :
        filename \in {"q1-plan.json", "shared.json"},
        layout \in {"pretty", "compact"},
        doc \in ImportDocuments}

\* The signals when the file is opened: a fresh start, the sample plan, or
\* a plan loaded from an earlier file.
ImportStarts ==
    {Signals(DefaultPreferences(today), DefaultPlanState(today), None) :
        today \in Todays}
    \cup {Signals(create_sample_plan(1)[1], create_sample_plan(1)[2], None)}
    \cup {load_plan_from_json(JsonText("pretty", Some(SampleExport)), "earlier.json",
                              DefaultPreferences(Ymd(2025, 1, 2)),
                              DefaultPlanState(Ymd(2025, 1, 2)), None).signals}

InitImport ==
    /\ \E start \in ImportStarts :
          /\ preferences = start.preferences
          /\ plan_state = start.plan_state
          /\ viewing_session = start.viewing_session
          /\ storage = IF start.viewing_session = None
                       THEN AutoSaveEffects(EmptyStorage, start.preferences,
                                            start.plan_state, None)
                       ELSE AutoSaveEffects(EmptyStorage,
                                            DefaultPreferences(Ymd(2025, 1, 2)),
                                            DefaultPlanState(Ymd(2025, 1, 2)), None)
    /\ clipboard = None
    /\ sample_runs = 0
    /\ lastOp = Did("start", TRUE)
    /\ input \in ImportFiles
    /\ output = None

\* The file input's handler: load_plan_from_json on the chosen file.
LoadPlanFromJson ==
    /\ output = None
    /\ LET r == load_plan_from_json(input.json, input.filename, preferences,
                                    plan_state, viewing_session)
       IN  /\ preferences' = r.signals.preferences
           /\ plan_state' = r.signals.plan_state
           /\ viewing_session' = DetectModified(r.signals.preferences,
                                                 r.signals.plan_state,
                                                 r.signals.viewing_session)
           /\ output' = Some(r.result)
           /\ AutoSave
           /\ lastOp' = Did("LoadPlanFromJson", IsOk(r.result))
    /\ UNCHANGED <<clipboard, sample_runs, input>>

SpecImport == InitImport /\ [][LoadPlanFromJson]_vars

-----------------------------------------------------------------------------
(* Properties of the allocation ledger (specification Spec).               *)

SameCell(a, b) ==
    a.team_member_id = b.team_member_id /\ a.week_start_date = b.week_start_date

\* The handlers that write one cell of the grid.
AssignClearSplitOps ==
    {"PaintCell", "KeyDelete", "ContextClear", "AssignApply", "SplitApply",
     "PanelProjectSelect", "PanelNoneSelect"}
CellMutationOps == AssignClearSplitOps \cup {"KeyPaste"}

SampleAllocationCount == Len(create_sample_plan(1)[2].allocations)

\* The last Allocation of the list lies on a cell the session edits.
LastAllocationEdited ==
    /\ plan_state.allocations # << >>
    /\ \E cell \in EditCells :
          AtCell(plan_state.allocations[Len(plan_state.allocations)], cell[1], cell[2])

\* C1: whatever cell mutations run (paintbrush assign and clear, context-menu
\* assign and clear, split, paste, Delete-key clear) on a plan whose
\* allocations have pairwise distinct (team_member_id, week_start_date)
\* keys, no two Allocations of the plan share a key afterwards.
C1_UniqueCellKeys ==
    \A i, j \in 1..Len(plan_state.allocations) :
        i # j => ~SameCell(plan_state.allocations[i], plan_state.allocations[j])

\* A split has been written over a cell the sample plan already allocates:
\* the list is as long as before and ends with the two-way split.
C1_Witness ==
    /\ lastOp.op = "SplitApply"
    /\ LastAllocationEdited
    /\ Len(plan_state.allocations[Len(plan_state.allocations)].assignments) = 2
    /\ Len(plan_state.allocations) = SampleAllocationCount

\* C2 (as claimed): after sample-data loads and cell mutations no Allocation
\* of the plan has an empty assignments list.
C2_NoEmptyAllocation ==
    \A i \in 1..Len(plan_state.allocations) : ~is_empty(plan_state.allocations[i])

\* C3 (as claimed): after cell mutations and technical-project deletions
\* every Allocation is_valid: its percentages sum to 0 with no assignments,
\* or to exactly 100.
C3_AllocationsValid ==
    \A i \in 1..Len(plan_state.allocations) :
        LET alloc == plan_state.allocations[i]
        IN  \/ alloc.assignments = << >> /\ total_percentage(alloc) = 0
            \/ total_percentage(alloc) = 100

\* The weeks in which the plan allocates the project.
WeeksOf(state, technical_project_id) ==
    {state.allocations[i].week_start_date :
        i \in {k \in 1..Len(state.allocations) :
                 AssignsProject(state.allocations[k], technical_project_id)}}

SetMin(S) == CHOOSE x \in S : \A y \in S : x <= y
SetMax(S) == CHOOSE x \in S : \A y \in S : y <= x

\* The project's dates are the sprint start of its earliest allocated week
\* and the sprint end of its latest.
DatesCoverAllocations(state, project, sprint_anchor, sprint_length) ==
    LET weeks == WeeksOf(state, project.id)
    IN  /\ project.start_date =
              get_sprint_boundaries(SetMin(weeks), sprint_anchor, sprint_length)[1]
        /\ project.expected_completion =
              Some(get_sprint_boundaries(SetMax(weeks), sprint_anchor, sprint_length)[2])

\* C4 (as claimed): every assign, clear or split of a cell leaves each
\* technical project it added to or removed from the cell, if the project
\* is still allocated somewhere, with start_date at the sprint start of its
\* earliest allocated week and expected_completion at the sprint end of its
\* latest.
C4_TouchedProjectsDated ==
    [][lastOp'.op \in AssignClearSplitOps =>
         \A i \in 1..Len(plan_state'.technical_projects) :
            LET project == plan_state'.technical_projects[i]
            IN  (/\ WeeksOf(plan_state, project.id) # WeeksOf(plan_state', project.id)
                 /\ WeeksOf(plan_state', project.id) # {})
                => DatesCoverAllocations(plan_state', project,
                                         preferences'.sprint_anchor_date,
                                         preferences'.sprint_length_weeks)]_vars

-----------------------------------------------------------------------------
(* Properties of update_technical_project_dates (specification SpecDates). *)

ProjectOf(state, technical_project_id) ==
    state.technical_projects[
        FirstIndex(state.technical_projects, LAMBDA p : p.id = technical_project_id)]

\* C5: called for a project of the plan that at least one Allocation
\* assigns, update_technical_project_dates leaves the project with
\* start_date = the sprint start of its earliest allocated week and
\* expected_completion = the sprint end of its latest, whatever the order of
\* the allocation list and the gaps between the weeks.
C5_DatesFromEarliestAndLatest ==
    (/\ output # None
     /\ HasTechnicalProject(input.state, input.technical_project_id)
     /\ WeeksOf(input.state, input.technical_project_id) # {})
    => DatesCoverAllocations(output[1],
                             ProjectOf(output[1], input.technical_project_id),
                             input.sprint_anchor_date, input.sprint_length_weeks)

\* The propagator has run on a project whose weeks are listed latest first
\* and are not adjacent.
C5_Witness ==
    /\ output # None
    /\ input.technical_project_id = DateProjectA
    /\ Len(input.state.allocations) = 3
    /\ \A i \in 1..3 : AssignsProject(input.state.allocations[i], DateProjectA)
    /\ input.state.allocations[1].week_start_date = Ymd(2025, 2, 10)
    /\ input.state.allocations[2].week_start_date = Ymd(2025, 1, 6)
    /\ input.state.allocations[3].week_start_date = Ymd(2025, 1, 27)
    /\ ProjectOf(output[1], DateProjectA).expected_completion # None

\* C6: called for a project that no Allocation assigns,
\* update_technical_project_dates returns the plan as it was: the project's
\* dates, the other projects, the allocations and the metadata timestamps.
C6_NoAllocationNoChange ==
    (/\ output # None
     /\ WeeksOf(input.state, input.technical_project_id) = {})
    => output[1] = input.state

\* The propagator has run for a project of the plan that only other
\* projects' allocations surround.
C6_Witness ==
    /\ output # None
    /\ input.technical_project_id = DateProjectB
    /\ Len(input.state.allocations) = 2
    /\ \A i \in 1..2 : ~AssignsProject(input.state.allocations[i], DateProjectB)
    /\ output[1].metadata.modified_at = input.state.metadata.modified_at

-----------------------------------------------------------------------------
(* Properties of get_sprint_boundaries (specification SpecSprint).         *)

\* C7 (as claimed): for every week_start, every anchor (also one later than
\* week_start or on another weekday) and every length 1..4,
\* get_sprint_boundaries returns sprint_start = anchor +
\* floor(floor(days / 7) / len) * len weeks, days = week_start - anchor, and
\* sprint_end = sprint_start + len weeks - 1 day.
C7_FloorAlignedSprint ==
    output # None =>
        LET days == input.week_start - input.quarter_start
            len == input.sprint_length_weeks
            sprint_start == input.quarter_start
                            + DaysPerWeek * (((days \div DaysPerWeek) \div len) * len)
        IN  output[1] = <<sprint_start, sprint_start + DaysPerWeek * len - 1>>

-----------------------------------------------------------------------------
(* Properties of PlanExport::validate (specification SpecValidate).        *)

\* The string has no character other than whitespace.
IsBlank(s) == \A i \in 1..Len(s) : SubSeq(s, i, i) \in Whitespace

MemberRefResolves(export, i) ==
    export.allocations[i].team_member_id \in Ids(export.team_members)

ProjectRefResolves(export, i, k) ==
    export.allocations[i].assignments[k].technical_project_id
        \in Ids(export.technical_projects)

RoadmapRefResolves(export, i) ==
    \/ export.technical_projects[i].roadmap_project_id = None
    \/ export.technical_projects[i].roadmap_project_id[1] \in Ids(export.roadmap_projects)

MemberRefsResolve(export) ==
    \A i \in 1..Len(export.allocations) : MemberRefResolves(export, i)

ProjectRefsResolve(export) ==
    \A i \in 1..Len(export.allocations) :
        \A k \in 1..Len(export.allocations[i].assignments) :
            ProjectRefResolves(export, i, k)

RoadmapRefsResolve(export) ==
    \A i \in 1..Len(export.technical_projects) : RoadmapRefResolves(export, i)

RefsResolve(export) ==
    MemberRefsResolve(export) /\ ProjectRefsResolve(export) /\ RoadmapRefsResolve(export)

\* C8 (as claimed): validate returns Ok exactly when version, team_name,
\* team_members and quarter_name are non-empty, num_weeks > 0 and every
\* reference resolves.
C8_OkIffNonEmpty ==
    output # None =>
        (IsOk(output[1]) <=>
            /\ input.version # ""
            /\ input.team_name # ""
            /\ input.team_members # << >>
            /\ input.quarter_name # ""
            /\ input.num_weeks > 0
            /\ RefsResolve(input))

\* C8 (amended): validate returns Ok exactly when version is non-empty,
\* team_name and quarter_name contain a character that is not whitespace,
\* team_members is non-empty, num_weeks > 0 and every reference resolves.
C8_OkIffNonBlank ==
    output # None =>
        (IsOk(output[1]) <=>
            /\ input.version # ""
            /\ ~IsBlank(input.team_name)
            /\ input.team_members # << >>
            /\ ~IsBlank(input.quarter_name)
            /\ input.num_weeks > 0
            /\ RefsResolve(input))

\* validate has rejected an export whose only flaw is a quarter name made
\* of spaces.
C8_Witness ==
    /\ output # None
    /\ ~IsOk(output[1])
    /\ input.version # "" /\ ~IsBlank(input.team_name)
    /\ input.team_members # << >>
    /\ input.quarter_name # "" /\ IsBlank(input.quarter_name)
    /\ input.num_weeks > 0
    /\ input.allocations # << >> /\ RefsResolve(input)

ScalarChecksPass(export) ==
    /\ export.version # ""
    /\ ~IsBlank(export.team_name)
    /\ export.team_members # << >>
    /\ ~IsBlank(export.quarter_name)
    /\ export.num_weeks > 0

\* Every identifier an export of ExportInputs mentions.
ExportUuids == {1, 2, 7, 8, 11, 18, 19, 21, 22, 28, 29}

\* C9: validate reports the first violated check in the order version,
\* team_name, team_members, quarter_name, num_weeks, allocation member
\* references, assignment project references, roadmap references; a
\* referential error carries the first dangling identifier in list order.
C9_FirstViolationReported ==
    output # None =>
        LET export == input
            result == output[1]
        IN  /\ result = Err(<<"InvalidVersion">>) <=> export.version = ""
            /\ result = Err(<<"EmptyTeamName">>) <=>
                  export.version # "" /\ IsBlank(export.team_name)
            /\ result = Err(<<"NoTeamMembers">>) <=>
                  /\ export.version # "" /\ ~IsBlank(export.team_name)
                  /\ export.team_members = << >>
            /\ result = Err(<<"EmptyQuarterName">>) <=>
                  /\ export.version # "" /\ ~IsBlank(export.team_name)
                  /\ export.team_members # << >> /\ IsBlank(export.quarter_name)
            /\ result = Err(<<"InvalidNumWeeks">>) <=>
                  /\ export.version # "" /\ ~IsBlank(export.team_name)
                  /\ export.team_members # << >> /\ ~IsBlank(export.quarter_name)
                  /\ export.num_weeks = 0
            /\ \A id \in ExportUuids :
                  /\ result = Err(<<"InvalidTeamMemberReference", id>>) <=>
                        /\ ScalarChecksPass(export)
                        /\ \E i \in 1..Len(export.allocations) :
                              /\ export.allocations[i].team_member_id = id
                              /\ ~MemberRefResolves(export, i)
                              /\ \A j \in 1..(i - 1) : MemberRefResolves(export, j)
                  /\ result = Err(<<"InvalidTechnicalProjectReference", id>>) <=>
                        /\ ScalarChecksPass(export) /\ MemberRefsResolve(export)
                        /\ \E i \in 1..Len(export.allocations) :
                           \E k \in 1..Len(export.allocations[i].assignments) :
                              /\ export.allocations[i].assignments[k].technical_project_id = id
                              /\ ~ProjectRefResolves(export, i, k)
                              /\ \A l \in 1..(k - 1) : ProjectRefResolves(export, i, l)
                              /\ \A j \in 1..(i - 1) :
                                    \A l \in 1..Len(export.allocations[j].assignments) :
                                        ProjectRefResolves(export, j, l)
                  /\ result = Err(<<"InvalidRoadmapProjectReference", id>>) <=>
                        /\ ScalarChecksPass(export) /\ MemberRefsResolve(export)
                        /\ ProjectRefsResolve(export)
                        /\ \E i \in 1..Len(export.technical_projects) :
                              /\ export.technical_projects[i].roadmap_project_id = Some(id)
                              /\ ~RoadmapRefResolves(export, i)
                              /\ \A j \in 1..(i - 1) : RoadmapRefResolves(export, j)

\* validate has reported the first of two unknown team members although an
\* assignment of the first allocation dangles as well.
C9_Witness ==
    /\ output # None
    /\ Len(input.allocations) = 2
    /\ input.allocations[1].team_member_id = 7
    /\ input.allocations[2].team_member_id = 8
    /\ input.allocations[1].assignments # << >>
    /\ ~ProjectRefResolves(input, 1, 1)
    /\ output[1] = Err(<<"InvalidTeamMemberReference", 7>>)

-----------------------------------------------------------------------------
(* Properties of load_plan_from_json (specification SpecImport).           *)

\* The export the loader accepts from the text, << >> when it accepts none.
AcceptedExport(json) ==
    IF IsOk(from_str(json)) /\ IsOk(validate(from_str(json)[2]))
    THEN Some(from_str(json)[2])
    ELSE None

\* C10: load_plan_from_json is all-or-nothing.  When the text does not parse
\* or the export does not validate it returns Err and preferences,
\* plan_state and viewing_session are what they were; only an export that
\* validates replaces the three, by its into_signals halves and a fresh
\* unmodified viewing session.
C10_LoadAllOrNothing ==
    [][output' # None =>
         IF AcceptedExport(input.json) = None
         THEN /\ ~IsOk(output'[1])
              /\ UNCHANGED <<preferences, plan_state, viewing_session>>
         ELSE LET export == AcceptedExport(input.json)[1]
              IN  /\ IsOk(output'[1])
                  /\ preferences' = into_signals(export)[1]
                  /\ plan_state' = into_signals(export)[2]
                  /\ viewing_session' =
                        Some(ViewingSession(input.filename, to_string(export), FALSE))]_vars

\* The loader has refused a file that parses but does not validate, offered
\* while the sample plan was open outside any viewing session.
C10_Witness ==
    /\ output # None
    /\ ~IsOk(output[1])
    /\ input.json.doc # None
    /\ viewing_session = None
    /\ preferences = create_sample_plan(1)[1]
    /\ plan_state = create_sample_plan(1)[2]

-----------------------------------------------------------------------------
(* PlanExport::from_signals followed by PlanExport::into_signals ---------- *)

\* The sprint configurations the settings accept, on two anchors.
RoundTripSprintConfigs == {<<anchor, len>> : anchor \in SprintAnchors, len \in 1..MaxSprintLength}

\* Preferences of a fresh start and of the sample team, under each sprint
\* configuration.
RoundTripPreferences ==
    {[prefs EXCEPT !.sprint_anchor_date = config[1], !.sprint_length_weeks = config[2]] :
        prefs \in {DefaultPreferences(today) : today \in Todays}
                  \cup {create_sample_plan(1)[1]},
        config \in RoundTripSprintConfigs}

\* Plans: fresh, the sample, and the sample after an edit of each kind.
RoundTripPlans ==
    LET sample == create_sample_plan(1)[2]
        alice == NewUuid(1, 1)
    IN  {DefaultPlanState(today) : today \in Todays}
        \cup {sample,
              ClearCell(sample, alice, Ymd(2025, 1, 1)),
              SplitCell(sample, alice, Ymd(2025, 1, 1), NewUuid(1, 8), NewUuid(1, 12), 50),
              DeleteTechnicalProject(sample, NewUuid(1, 9))}

RoundTripInputs ==
    {[prefs |-> prefs, state |-> state] :
        prefs \in RoundTripPreferences, state \in RoundTripPlans}

InitRoundTrip == NoSession /\ input \in RoundTripInputs /\ output = None

\* Export the two signals and split the export again.
CallRoundTrip ==
    /\ output = None
    /\ LET export == from_signals(input.prefs, input.state)
       IN  output' = Some([export |-> export, signals |-> into_signals(export)])
    /\ UNCHANGED <<preferences, plan_state, viewing_session, storage, clipboard,
                   sample_runs, lastOp, input>>

SpecRoundTrip == InitRoundTrip /\ [][CallRoundTrip]_vars

\* C11: into_signals(from_signals(prefs, state)) returns a pair whose
\* team_name, team_members, quarter_name, quarter_start_date, num_weeks,
\* roadmap_projects, technical_projects and allocations equal the originals
\* (sequences are compared element by element, in order).
C11_RoundTripPreserves ==
    output # None =>
        LET restored_prefs == output[1].signals[1]
            restored_state == output[1].signals[2]
        IN  /\ restored_prefs.team_name = input.prefs.team_name
            /\ restored_prefs.team_members = input.prefs.team_members
            /\ restored_state.quarter_name = input.state.quarter_name
            /\ restored_state.quarter_start_date = input.state.quarter_start_date
            /\ restored_state.num_weeks = input.state.num_weeks
            /\ restored_state.roadmap_projects = input.state.roadmap_projects
            /\ restored_state.technical_projects = input.state.technical_projects
            /\ restored_state.allocations = input.state.allocations

\* A staffed plan with projects and allocations has made the round trip.
C11_Witness ==
    /\ output # None
    /\ Len(input.prefs.team_members) > 1
    /\ Len(input.state.allocations) > 1
    /\ Len(input.state.technical_projects) > 1
    /\ Len(input.state.roadmap_projects) > 1

SprintFields == {"sprint_anchor_date", "sprint_length_weeks"}

\* C12: into_signals returns Preferences with sprint_anchor_date 2024-01-01
\* and sprint_length_weeks 2 whatever the exporting Preferences held, and
\* the export has no sprint field: it is the same export under any sprint
\* configuration of the exporting Preferences.
C12_SprintConfigReset ==
    output # None =>
        /\ output[1].signals[1].sprint_anchor_date = Ymd(2024, 1, 1)
        /\ output[1].signals[1].sprint_length_weeks = 2
        /\ DOMAIN output[1].export \cap SprintFields = {}
        /\ \A config \in RoundTripSprintConfigs :
              from_signals([input.prefs EXCEPT !.sprint_anchor_date = config[1],
                                               !.sprint_length_weeks = config[2]],
                           input.state) = output[1].export

\* Preferences with another anchor and another sprint length were exported
\* and imported again.
C12_Witness ==
    /\ output # None
    /\ input.prefs.sprint_anchor_date # Ymd(2024, 1, 1)
    /\ input.prefs.sprint_length_weeks # 2
    /\ output[1].signals[1].sprint_length_weeks = 2

-----------------------------------------------------------------------------
(* Roadmap project deletion (src/components/views/roadmap_view.rs) -------- *)

\* A deletion that leaves the technical projects as they are.
RemoveRoadmapProjectOnly(state, id) ==
    [state EXCEPT !.roadmap_projects = SelectSeq(@, LAMBDA proj : proj.id # id)]

\* The delete dialog's on_confirm, inside plan_state.with_mut.
DeleteRoadmapProject(state, id) ==
    LET technical_projects == state.technical_projects
    IN  [state EXCEPT
            !.roadmap_projects = SelectSeq(@, LAMBDA proj : proj.id # id),
            !.technical_projects =
                [i \in 1..Len(technical_projects) |->
                    IF technical_projects[i].roadmap_project_id = Some(id)
                    THEN [technical_projects[i] EXCEPT !.roadmap_project_id = None]
                    ELSE technical_projects[i]]]

\* The technical projects whose link the technical project modal has
\* set: the first LinkedProjects of the sample plan.
LinkedProjects == 3

\* The sample plan with the links of its first technical projects set, by
\* the technical project modal, to nothing or to any roadmap project.
RoadmapDeletePlans ==
    LET sample == create_sample_plan(1)[2]
        choices == {None} \cup {Some(id) : id \in Ids(sample.roadmap_projects)}
    IN  {[sample EXCEPT !.technical_projects =
             [i \in 1..Len(sample.technical_projects) |->
                 IF i <= LinkedProjects
                 THEN [sample.technical_projects[i] EXCEPT !.roadmap_project_id = links[i]]
                 ELSE sample.technical_projects[i]]] :
            links \in [1..LinkedProjects -> choices]}

InitRoadmapDelete ==
    /\ preferences = create_sample_plan(1)[1]
    /\ plan_state \in RoadmapDeletePlans
    /\ viewing_session = None
    /\ storage = AutoSaveEffects(EmptyStorage, preferences, plan_state, viewing_session)
    /\ clipboard = None
    /\ sample_runs = 1
    /\ lastOp = Did("start", TRUE)
    /\ input = None
    /\ output = None

\* Confirm in the delete dialog of a listed roadmap project.  `input` keeps
\* delete_project_id and `output` the plan the dialog was opened on.
ConfirmDeleteRoadmapProject ==
    /\ \E id \in Ids(plan_state.roadmap_projects) :
          /\ plan_state' = DeleteRoadmapProject(plan_state, id)
          /\ input' = Some(id)
    /\ output' = Some(plan_state)
    /\ lastOp' = Did("ConfirmDeleteRoadmapProject", TRUE)
    /\ UNCHANGED <<preferences, viewing_session, clipboard, sample_runs>>
    /\ AutoSave

SpecRoadmapDelete == InitRoadmapDelete /\ [][ConfirmDeleteRoadmapProject]_vars

\* C13: deleting roadmap project R removes R from roadmap_projects (the
\* others stay, in order), sets roadmap_project_id to None on exactly the
\* technical projects that linked to R, deletes no technical project,
\* changes no other field of one, leaves the allocations unchanged, and
\* afterwards every set roadmap_project_id resolves to a roadmap project.
C13_DeleteUnlinks ==
    lastOp.op = "ConfirmDeleteRoadmapProject" =>
        LET before == output[1]
            R == input[1]
        IN  /\ R \notin Ids(plan_state.roadmap_projects)
            /\ plan_state.roadmap_projects =
                   SelectSeq(before.roadmap_projects, LAMBDA proj : proj.id # R)
            /\ Len(plan_state.technical_projects) = Len(before.technical_projects)
            /\ \A i \in 1..Len(before.technical_projects) :
                  LET old == before.technical_projects[i]
                      new == plan_state.technical_projects[i]
                  IN  /\ old.roadmap_project_id = Some(R) => new.roadmap_project_id = None
                      /\ old.roadmap_project_id # Some(R) => new = old
                      /\ [new EXCEPT !.roadmap_project_id = None]
                             = [old EXCEPT !.roadmap_project_id = None]
            /\ plan_state.allocations = before.allocations
            /\ \A i \in 1..Len(plan_state.technical_projects) :
                  LET link == plan_state.technical_projects[i].roadmap_project_id
                  IN  link # None => link[1] \in Ids(plan_state.roadmap_projects)

\* A roadmap project with two linked technical projects was deleted while
\* another technical project keeps its link to a remaining roadmap project.
C13_Witness ==
    /\ lastOp.op = "ConfirmDeleteRoadmapProject"
    /\ Cardinality({i \in 1..Len(output[1].technical_projects) :
                      output[1].technical_projects[i].roadmap_project_id = input}) = 2
    /\ \E i \in 1..Len(plan_state.technical_projects) :
          plan_state.technical_projects[i].roadmap_project_id # None
    /\ plan_state.allocations # << >>

-----------------------------------------------------------------------------
(* Team member deletion ---------------------------------------------------- *)

\* Deleting a team member: the member leaves Preferences.team_members.
DeleteTeamMember(prefs, id) ==
    [prefs EXCEPT !.team_members = SelectSeq(@, LAMBDA member : member.id # id)]

\* The sample plan as loaded and after an edit of each kind.
MemberDeletePlans ==
    LET sample == create_sample_plan(1)[2]
    IN  {sample,
         ClearCell(sample, NewUuid(1, 1), Ymd(2025, 1, 1)),
         ClearCell(sample, NewUuid(1, 2), Ymd(2025, 1, 8)),
         SplitCell(sample, NewUuid(1, 1), Ymd(2025, 1, 1), NewUuid(1, 8), NewUuid(1, 12), 50),
         AssignCell(sample, NewUuid(1, 4), Ymd(2025, 1, 1), NewUuid(1, 8)),
         DeleteTechnicalProject(sample, NewUuid(1, 9))}

InitMemberDelete ==
    /\ preferences = create_sample_plan(1)[1]
    /\ plan_state \in MemberDeletePlans
    /\ viewing_session = None
    /\ storage = AutoSaveEffects(EmptyStorage, preferences, plan_state, viewing_session)
    /\ clipboard = None
    /\ sample_runs = 1
    /\ lastOp = Did("start", TRUE)
    /\ input = None
    /\ output = None

\* Delete a listed team member.  `input` keeps the member's id and `output`
\* the two signals as they were before.
ConfirmDeleteTeamMember ==
    /\ \E id \in Ids(preferences.team_members) :
          /\ preferences' = DeleteTeamMember(preferences, id)
          /\ input' = Some(id)
    /\ output' = Some(Signals(preferences, plan_state, viewing_session))
    /\ lastOp' = Did("ConfirmDeleteTeamMember", TRUE)
    /\ UNCHANGED <<plan_state, viewing_session, clipboard, sample_runs>>
    /\ AutoSave

SpecMemberDelete == InitMemberDelete /\ [][ConfirmDeleteTeamMember]_vars

AllocationsOfMember(state, id) ==
    {i \in 1..Len(state.allocations) : state.allocations[i].team_member_id = id}

\* C14: deleting a team member removes only that member from
\* Preferences.team_members; PlanState (its allocations with it) is
\* unchanged, so each allocation of the deleted member remains, its
\* team_member_id naming no listed member: validate, run on the export of
\* the two signals while members remain, reports an invalid team member
\* reference.
C14_DeleteLeavesAllocations ==
    lastOp.op = "ConfirmDeleteTeamMember" =>
        LET before == output[1]
            id == input[1]
        IN  /\ preferences.team_members =
                   SelectSeq(before.preferences.team_members, LAMBDA member : member.id # id)
            /\ [preferences EXCEPT !.team_members = before.preferences.team_members]
                   = before.preferences
            /\ plan_state = before.plan_state
            /\ \A i \in AllocationsOfMember(before.plan_state, id) :
                  /\ plan_state.allocations[i] = before.plan_state.allocations[i]
                  /\ plan_state.allocations[i].team_member_id
                         \notin Ids(preferences.team_members)
            /\ (AllocationsOfMember(before.plan_state, id) # {}
                /\ preferences.team_members # << >>) =>
                  LET validated == validate(from_signals(preferences, plan_state))
                  IN  /\ ~IsOk(validated)
                      /\ validated[2][1] = "InvalidTeamMemberReference"
                      /\ validated[2][2] \notin Ids(preferences.team_members)

\* A member holding several allocations was deleted while other members
\* remain listed.
C14_Witness ==
    /\ lastOp.op = "ConfirmDeleteTeamMember"
    /\ Cardinality(AllocationsOfMember(plan_state, input[1])) > 1
    /\ Len(preferences.team_members) = 3

-----------------------------------------------------------------------------
(* f32 arithmetic on allocated weeks.  A non-negative f32 is the integer n  *)
(* standing for n / 2^F32FractionBits; the values the plans below produce   *)
(* (sums of percentage / 100.0, percentages multiples of 5) are all of that *)
(* form and below 2^30 units.                                               *)

F32SignificandBits == 24
F32FractionBits == 28

RECURSIVE BitLength(_)
BitLength(n) == IF n = 0 THEN 0 ELSE 1 + BitLength(n \div 2)

\* n / d rounded to the nearest integer, ties to the even one.
RoundTiesEven(n, d) ==
    LET q == n \div d
        r == n % d
    IN  IF 2 * r > d \/ (2 * r = d /\ q % 2 = 1) THEN q + 1 ELSE q

\* The f32 nearest to the real n / 2^F32FractionBits.
F32Round(n) ==
    IF BitLength(n) <= F32SignificandBits THEN n
    ELSE LET ulp == 2 ^ (BitLength(n) - F32SignificandBits)
         IN  RoundTiesEven(n, ulp) * ulp

\* a + b on f32
F32Add(a, b) == F32Round(a + b)

\* The binary digits to shift percentage by so that percentage / 100 has a
\* full significand.
RECURSIVE SignificandShift(_, _)
SignificandShift(percentage, k) ==
    IF percentage * 2 ^ k >= 100 * 2 ^ (F32SignificandBits - 1) THEN k
    ELSE SignificandShift(percentage, k + 1)

\* percentage / 100.0 on f32, for a whole percentage (0, or 4 and more).
PercentageToWeeks(percentage) ==
    IF percentage = 0 THEN 0
    ELSE LET k == SignificandShift(percentage, 0)
         IN  RoundTiesEven(percentage * 2 ^ k, 100) * 2 ^ (F32FractionBits - k)

\* Iterator::sum and the `+=` loops: the weeks added one by one, from 0.0.
RECURSIVE SumWeeks(_, _)
SumWeeks(weeks, acc) ==
    IF weeks = << >> THEN acc ELSE SumWeeks(Tail(weeks), F32Add(acc, Head(weeks)))

-----------------------------------------------------------------------------
(* Aggregate queries of PlanState (models/plan_state.rs) ------------------ *)

\* The get_role closure of the views: the role of the first listed member
\* with this id.
get_member_role(team_members, member_id) ==
    LET hits == SelectSeq(team_members, LAMBDA member : member.id = member_id)
    IN  IF hits = << >> THEN None ELSE Some(hits[1].role)

\* The weeks of an allocation's assignments to the project, in order.
RECURSIVE AssignmentWeeks(_, _)
AssignmentWeeks(assignments, technical_project_id) ==
    IF assignments = << >> THEN << >>
    ELSE (IF Head(assignments).technical_project_id = technical_project_id
          THEN <<PercentageToWeeks(Head(assignments).percentage)>>
          ELSE << >>)
         \o AssignmentWeeks(Tail(assignments), technical_project_id)

\* The weeks of all assignments to the project, in allocation order.
RECURSIVE ProjectWeeks(_, _)
ProjectWeeks(allocations, technical_project_id) ==
    IF allocations = << >> THEN << >>
    ELSE AssignmentWeeks(Head(allocations).assignments, technical_project_id)
         \o ProjectWeeks(Tail(allocations), technical_project_id)

\* A total that counts a whole week for every allocation assigning the
\* project, whatever its share.
whole_week_per_allocation(state, technical_project_id) ==
    SumWeeks([i \in 1..Len(SelectSeq(state.allocations,
                                      LAMBDA alloc : AssignsProject(alloc, technical_project_id)))
                 |-> PercentageToWeeks(MaxPercentage)], 0)

\* PlanState::calculate_project_allocated_weeks
calculate_project_allocated_weeks(state, technical_project_id) ==
    SumWeeks(ProjectWeeks(state.allocations, technical_project_id), 0)

\* The weeks the by-role loop adds to one role's accumulator, in order.
RECURSIVE RoleWeeks(_, _, _, _)
RoleWeeks(allocations, technical_project_id, team_members, role) ==
    IF allocations = << >> THEN << >>
    ELSE (IF get_member_role(team_members, Head(allocations).team_member_id) = Some(role)
          THEN AssignmentWeeks(Head(allocations).assignments, technical_project_id)
          ELSE << >>)
         \o RoleWeeks(Tail(allocations), technical_project_id, team_members, role)

\* A loop that counts a member it cannot resolve as Engineering.
RECURSIVE RoleWeeksOrEngineering(_, _, _, _)
RoleWeeksOrEngineering(allocations, technical_project_id, team_members, role) ==
    IF allocations = << >> THEN << >>
    ELSE LET found == get_member_role(team_members, Head(allocations).team_member_id)
             counted == IF found = None THEN Some("eng") ELSE found
         IN  (IF counted = Some(role)
              THEN AssignmentWeeks(Head(allocations).assignments, technical_project_id)
              ELSE << >>)
             \o RoleWeeksOrEngineering(Tail(allocations), technical_project_id,
                                       team_members, role)

\* (eng_allocated, sci_allocated, total_allocated)
ByRole(eng_allocated, sci_allocated) ==
    [eng |-> eng_allocated, sci |-> sci_allocated,
     total |-> F32Add(eng_allocated, sci_allocated)]

\* A by-role query with get_member_role(..).unwrap_or(Role::Engineering).
by_role_or_engineering(state, technical_project_id, team_members) ==
    ByRole(SumWeeks(RoleWeeksOrEngineering(state.allocations, technical_project_id,
                                           team_members, "eng"), 0),
           SumWeeks(RoleWeeksOrEngineering(state.allocations, technical_project_id,
                                           team_members, "sci"), 0))

\* PlanState::calculate_technical_project_allocated_by_role, the lookup
\* being the views' get_role over team_members.
calculate_technical_project_allocated_by_role(state, technical_project_id, team_members) ==
    ByRole(SumWeeks(RoleWeeks(state.allocations, technical_project_id, team_members,
                              "eng"), 0),
           SumWeeks(RoleWeeks(state.allocations, technical_project_id, team_members,
                              "sci"), 0))

\* The weeks the roadmap loop adds to one role's accumulator: project by
\* linked project, in technical_projects order.
RECURSIVE LinkedRoleWeeks(_, _, _, _, _)
LinkedRoleWeeks(technical_projects, allocations, roadmap_project_id, team_members, role) ==
    IF technical_projects = << >> THEN << >>
    ELSE (IF Head(technical_projects).roadmap_project_id = Some(roadmap_project_id)
          THEN RoleWeeks(allocations, Head(technical_projects).id, team_members, role)
          ELSE << >>)
         \o LinkedRoleWeeks(Tail(technical_projects), allocations, roadmap_project_id,
                            team_members, role)

\* PlanState::calculate_roadmap_allocated_weeks
calculate_roadmap_allocated_weeks(state, roadmap_project_id, team_members) ==
    ByRole(SumWeeks(LinkedRoleWeeks(state.technical_projects, state.allocations,
                                    roadmap_project_id, team_members, "eng"), 0),
           SumWeeks(LinkedRoleWeeks(state.technical_projects, state.allocations,
                                    roadmap_project_id, team_members, "sci"), 0))

(* The by-role queries, as the Technical and Roadmap views call them ------ *)

MaxRoleAllocations == 3   \* allocations in the plan the queries run on

RoleProjectA == NewUuid(1, 8)
RoleProjectB == NewUuid(1, 9)
RoleRoadmap == NewUuid(1, 5)
RoleEngineer == NewUuid(1, 1)
RoleScientist == NewUuid(1, 3)
RoleDeleted == NewUuid(2, 1)     \* a member no longer listed

RoleTeam ==
    <<TeamMember(RoleEngineer, "Alice Kim", "eng", 12),
      TeamMember(RoleScientist, "Carol Smith", "sci", 6)>>

\* What paint, assign and the split slider (0 to 100 in steps of 5) leave in
\* a cell.
RoleAssignments ==
    {<<Assignment(RoleProjectA, 100)>>,
     <<Assignment(RoleProjectA, 10), Assignment(RoleProjectB, 90)>>,
     <<Assignment(RoleProjectA, 50), Assignment(RoleProjectB, 50)>>,
     <<Assignment(RoleProjectA, 0), Assignment(RoleProjectB, 100)>>}

\* One allocation per week, the weeks in list order.
RoleAllocationLists ==
    LET cells == {<<member, assignments>> :
                    member \in {RoleEngineer, RoleScientist, RoleDeleted},
                    assignments \in RoleAssignments}
        lists == UNION {[1..n -> cells] : n \in 0..MaxRoleAllocations}
    IN  {[i \in 1..Len(list) |->
             [Allocation(list[i][1], Ymd(2025, 1, 1) + DaysPerWeek * (i - 1))
                 EXCEPT !.assignments = list[i][2]]] : list \in lists}

RolePlan(allocations, link_b) ==
    [NewPlanState("Q1 2025", Ymd(2025, 1, 1), StandardQuarterWeeks) EXCEPT
        !.roadmap_projects =
            <<RoadmapProject(RoleRoadmap, "Q1 Platform Improvements", 24, 0,
                             Ymd(2025, 1, 1), Ymd(2025, 3, 31), "Blue")>>,
        !.technical_projects =
            <<TechnicalProject(RoleProjectA, "Auth Service Refactor", Some(RoleRoadmap),
                               6, 0, Ymd(2025, 1, 1)),
              TechnicalProject(RoleProjectB, "API Gateway Migration", link_b,
                               8, 0, Ymd(2025, 1, 1))>>,
        !.allocations = allocations]

RoleInputs ==
    {[state |-> RolePlan(allocations, link_b), team_members |-> RoleTeam,
      technical_project_id |-> RoleProjectA, roadmap_project_id |-> RoleRoadmap] :
        allocations \in RoleAllocationLists,
        link_b \in {None, Some(RoleRoadmap)}}

InitRole == NoSession /\ input \in RoleInputs /\ output = None

\* A row of the Technical view and a row of the Roadmap view are computed.
CallAllocatedByRole ==
    /\ output = None
    /\ output' = Some([by_role |-> calculate_technical_project_allocated_by_role(
                                       input.state, input.technical_project_id,
                                       input.team_members),
                       roadmap |-> calculate_roadmap_allocated_weeks(
                                       input.state, input.roadmap_project_id,
                                       input.team_members),
                       project |-> calculate_project_allocated_weeks(
                                       input.state, input.technical_project_id)])
    /\ UNCHANGED <<preferences, plan_state, viewing_session, storage, clipboard,
                   sample_runs, lastOp, input>>

SpecRole == InitRole /\ [][CallAllocatedByRole]_vars

\* The plan without the allocations whose member the lookup cannot resolve.
WithoutUnresolved(state, team_members) ==
    [state EXCEPT !.allocations =
        SelectSeq(@, LAMBDA allocation :
                         get_member_role(team_members, allocation.team_member_id) # None)]

\* The allocations that assign the project / assign it a non-zero share.
Allocating(state, technical_project_id) ==
    {i \in 1..Len(state.allocations) :
        AssignsProject(state.allocations[i], technical_project_id)}

AllocatingNonZero(state, technical_project_id) ==
    {i \in 1..Len(state.allocations) :
        \E k \in 1..Len(state.allocations[i].assignments) :
            /\ state.allocations[i].assignments[k].technical_project_id
                   = technical_project_id
            /\ state.allocations[i].assignments[k].percentage # 0}

MembersResolve(state, team_members, indices) ==
    \A i \in indices :
        get_member_role(team_members, state.allocations[i].team_member_id) # None

\* Unresolved allocations contribute nothing, and total = eng + sci.
NoMatchContributesNothing ==
    /\ output[1].by_role =
           calculate_technical_project_allocated_by_role(
               WithoutUnresolved(input.state, input.team_members),
               input.technical_project_id, input.team_members)
    /\ output[1].roadmap =
           calculate_roadmap_allocated_weeks(
               WithoutUnresolved(input.state, input.team_members),
               input.roadmap_project_id, input.team_members)
    /\ output[1].by_role.total = F32Add(output[1].by_role.eng, output[1].by_role.sci)
    /\ output[1].roadmap.total = F32Add(output[1].roadmap.eng, output[1].roadmap.sci)

\* C15 as stated: the by-role queries treat an allocation whose member the
\* lookup cannot resolve as no match, the total is eng + sci, and the
\* by-role total of a technical project equals
\* calculate_project_allocated_weeks exactly when every allocating member
\* resolves.
C15_TotalEqualsIffAllResolve ==
    output # None =>
        /\ NoMatchContributesNothing
        /\ (output[1].by_role.total = output[1].project)
               <=> MembersResolve(input.state, input.team_members,
                                  Allocating(input.state, input.technical_project_id))

\* The unit in the last place of an f32.
Ulp(x) ==
    IF BitLength(x) <= F32SignificandBits THEN 1
    ELSE 2 ^ (BitLength(x) - F32SignificandBits)

\* a and b differ by no more than n units in the last place of the larger.
AgreeUpToRounding(a, b, n) ==
    LET larger == IF a > b THEN a ELSE b
        smaller == IF a > b THEN b ELSE a
    IN  larger - smaller <= n * Ulp(larger)

\* C15, amended: as stated, except that the by-role total agrees with
\* calculate_project_allocated_weeks up to f32 rounding (one unit in the
\* last place per allocation at most) exactly when every member whose
\* allocation gives the project a non-zero percentage resolves.
C15_TotalAgreesIffNonZeroResolve ==
    output # None =>
        /\ NoMatchContributesNothing
        /\ AgreeUpToRounding(output[1].by_role.total, output[1].project,
                             Len(input.state.allocations))
               <=> MembersResolve(input.state, input.team_members,
                                  AllocatingNonZero(input.state,
                                                    input.technical_project_id))
        /\ output[1].by_role.total <= output[1].project
               \/ AgreeUpToRounding(output[1].by_role.total, output[1].project,
                                    Len(input.state.allocations))

\* The queries ran on a plan where a deleted member and members of both
\* roles allocate the project.
C15_Witness ==
    /\ output # None
    /\ ~MembersResolve(input.state, input.team_members,
                       AllocatingNonZero(input.state, input.technical_project_id))
    /\ output[1].by_role.eng > 0
    /\ output[1].by_role.sci > 0
    /\ output[1].by_role.total < output[1].project
    /\ output[1].roadmap.total > output[1].by_role.total

-----------------------------------------------------------------------------
(* Viewing sessions: App's effects (src/main.rs), TopNav's handlers        *)
(* (src/components/layout/top_nav.rs) and the settings modal               *)
(* (src/components/ui/settings_modal.rs).                                  *)

MaxPlanWeeks == 52

\* SettingsModal handle_apply on what the two forms parse to:
\* <<Preferences, PlanState>> afterwards.
handle_apply(prefs, state, plan_name, parsed_date, parsed_weeks, parsed_anchor, parsed_length) ==
    <<IF IsOk(parsed_anchor) /\ IsOk(parsed_length) /\ parsed_length[2] \in 1..MaxSprintLength
      THEN [prefs EXCEPT !.sprint_anchor_date = parsed_anchor[2],
                         !.sprint_length_weeks = parsed_length[2]]
      ELSE prefs,
      IF IsOk(parsed_date) /\ IsOk(parsed_weeks) /\ parsed_weeks[2] \in 1..MaxPlanWeeks
      THEN [state EXCEPT !.quarter_name = plan_name,
                         !.quarter_start_date = parsed_date[2],
                         !.num_weeks = parsed_weeks[2]]
      ELSE state>>

\* The files offered while the session runs: a colleague's plan and a file
\* that is no plan.
ViewingFiles ==
    {[filename |-> "shared.json",
      json |-> JsonText("pretty", Some([SampleExport EXCEPT
                                           !.team_name = "Data Science",
                                           !.allocations = SubSeq(@, 1, Len(@) - 1)]))],
     [filename |-> "notes.txt", json |-> JsonText("pretty", None)]}

\* The days the session runs on.
ViewingDays == {Ymd(2025, 1, 2)}

\* The application starts outside any viewing session, on a fresh plan or on
\* the sample plan, and the auto-save effects have run once.
InitViewing ==
    /\ \/ \E today \in ViewingDays :
             /\ preferences = DefaultPreferences(today)
             /\ plan_state = DefaultPlanState(today)
             /\ sample_runs = 0
       \/ /\ preferences = create_sample_plan(1)[1]
          /\ plan_state = create_sample_plan(1)[2]
          /\ sample_runs = 1
    /\ viewing_session = None
    /\ storage = AutoSaveEffects(EmptyStorage, preferences, plan_state, viewing_session)
    /\ clipboard = None
    /\ lastOp = Did("start", TRUE)
    /\ input = None
    /\ output = None

\* The effects that follow a handler which left `store` in localStorage.
RunEffects(store) ==
    /\ viewing_session' = DetectModified(preferences', plan_state', viewing_session)
    /\ storage' = AutoSaveEffects(store, preferences', plan_state', viewing_session')

\* The file input's handler.  `input` keeps the file and `output` what
\* localStorage held when a file was accepted last.
OpenPlanFile ==
    \E file \in ViewingFiles :
        LET r == load_plan_from_json(file.json, file.filename, preferences,
                                     plan_state, viewing_session)
        IN  /\ preferences' = r.signals.preferences
            /\ plan_state' = r.signals.plan_state
            /\ viewing_session' = DetectModified(preferences', plan_state',
                                                 r.signals.viewing_session)
            /\ storage' = AutoSaveEffects(storage, preferences', plan_state',
                                          viewing_session')
            /\ input' = IF IsOk(r.result) THEN Some(file) ELSE input
            /\ output' = IF IsOk(r.result) THEN Some(storage) ELSE output
            /\ lastOp' = Did("OpenPlanFile", IsOk(r.result))
            /\ UNCHANGED <<clipboard, sample_runs>>

\* A cell edit: allocate_to_cell in paintbrush mode.
AllocateToCell ==
    /\ plan_state.metadata.modified_at < MaxModified
    /\ \E cell \in EditCells :
       \E selected \in {SelectedNone} \cup {Technical(id) : id \in PaletteIds} :
          LET r == allocate_project_to_cell(plan_state, selected, cell[1], cell[2],
                                            preferences.sprint_anchor_date,
                                            preferences.sprint_length_weeks)
          IN  /\ plan_state' = r.state
              /\ lastOp' = Did("AllocateToCell", r.ok)
    /\ UNCHANGED <<preferences, clipboard, sample_runs, input, output>>
    /\ RunEffects(storage)

\* A project edit: the delete confirmation of the Technical view.
DeleteListedProject ==
    /\ plan_state.metadata.modified_at < MaxModified
    /\ \E id \in ListedProjects :
          plan_state' = DeleteTechnicalProject(plan_state, id)
    /\ lastOp' = Did("DeleteListedProject", TRUE)
    /\ UNCHANGED <<preferences, clipboard, sample_runs, input, output>>
    /\ RunEffects(storage)

\* A settings change: Apply with the plan form untouched and the sprint form
\* filled in, validly or not.
ApplySettings ==
    /\ \E parsed_anchor \in {Ok(Ymd(2025, 1, 8))} :
       \E parsed_length \in {Ok(3), Ok(MaxSprintLength + 1)} :
          LET applied == handle_apply(preferences, plan_state, plan_state.quarter_name,
                                      Ok(plan_state.quarter_start_date),
                                      Ok(plan_state.num_weeks),
                                      parsed_anchor, parsed_length)
          IN  /\ preferences' = applied[1]
              /\ plan_state' = applied[2]
              /\ lastOp' = Did("ApplySettings", applied[1] # preferences)
    /\ UNCHANGED <<clipboard, sample_runs, input, output>>
    /\ RunEffects(storage)

\* SettingsModal on_load_sample_data.
OnLoadSampleData ==
    /\ sample_runs < MaxSampleLoads
    /\ sample_runs' = sample_runs + 1
    /\ preferences' = create_sample_plan(sample_runs + 1)[1]
    /\ plan_state' = create_sample_plan(sample_runs + 1)[2]
    /\ lastOp' = Did("OnLoadSampleData", TRUE)
    /\ UNCHANGED <<clipboard, input, output>>
    /\ RunEffects(storage)

\* SettingsModal on_clear_preferences.
OnClearPreferences ==
    /\ \E today \in ViewingDays :
          /\ preferences' = DefaultPreferences(today)
          /\ plan_state' = DefaultPlanState(today)
    /\ lastOp' = Did("OnClearPreferences", TRUE)
    /\ UNCHANGED <<clipboard, sample_runs, input, output>>
    /\ RunEffects(clear_plan_state(clear_preferences(storage)))

\* ViewingModeMenu, Adopt This Plan.
AdoptThisPlan ==
    /\ viewing_session # None
    /\ viewing_session' = None
    /\ storage' = AutoSaveEffects(save_plan_state(save_preferences(storage, preferences),
                                                  plan_state),
                                  preferences, plan_state, None)
    /\ lastOp' = Did("AdoptThisPlan", TRUE)
    /\ UNCHANGED <<preferences, plan_state, clipboard, sample_runs, input, output>>

\* ViewingModeMenu, Discard Changes (enabled while the session is modified).
DiscardChanges ==
    /\ viewing_session # None
    /\ viewing_session[1].modified
    /\ LET session == viewing_session[1]
           parsed == from_str(session.original_json)
       IN  IF IsOk(parsed)
           THEN /\ preferences' = into_signals(parsed[2])[1]
                /\ plan_state' = into_signals(parsed[2])[2]
                /\ viewing_session' =
                      DetectModified(preferences', plan_state',
                                     Some(ViewingSession(session.filename,
                                                         session.original_json, FALSE)))
           ELSE UNCHANGED <<preferences, plan_state, viewing_session>>
    /\ storage' = AutoSaveEffects(storage, preferences', plan_state', viewing_session')
    /\ lastOp' = Did("DiscardChanges", TRUE)
    /\ UNCHANGED <<clipboard, sample_runs, input, output>>

\* The Close button: restore_from_local_storage.
RestoreFromLocalStorage ==
    /\ viewing_session # None
    /\ \E today \in ViewingDays :
          /\ preferences' = IF load_preferences(storage) # None
                            THEN load_preferences(storage)[1]
                            ELSE DefaultPreferences(today)
          /\ plan_state' = IF load_plan_state(storage) # None
                           THEN load_plan_state(storage)[1]
                           ELSE DefaultPlanState(today)
    /\ viewing_session' = None
    /\ storage' = AutoSaveEffects(storage, preferences', plan_state', None)
    /\ lastOp' = Did("RestoreFromLocalStorage", TRUE)
    /\ UNCHANGED <<clipboard, sample_runs, input, output>>

NextViewing ==
    \/ OpenPlanFile
    \/ AllocateToCell
    \/ DeleteListedProject
    \/ ApplySettings
    \/ OnLoadSampleData
    \/ OnClearPreferences
    \/ AdoptThisPlan
    \/ DiscardChanges
    \/ RestoreFromLocalStorage

SpecViewing == InitViewing /\ [][NextViewing]_vars

\* C16: while a viewing session is open, no user operation other than
\* adopting the viewed plan writes to or clears what localStorage holds.
C16_ViewingLeavesStorage ==
    [][(viewing_session # None /\ lastOp'.op # "AdoptThisPlan")
           => storage' = storage]_vars

\* C17: after a successful import and any edits, Close leaves
\* viewing_session None and the two signals equal to the Preferences and
\* PlanState that were persisted before the import.
C17_CloseRestoresPersisted ==
    [][(lastOp'.op = "RestoreFromLocalStorage" /\ output # None)
           => /\ viewing_session' = None
              /\ Some(preferences') = load_preferences(output[1])
              /\ Some(plan_state') = load_plan_state(output[1])]_vars

-----------------------------------------------------------------------------
(* Drag-to-paint (src/components/views/allocation_view.rs) ----------------- *)

MaxDragPaints == 3   \* a drag stops painting at this modification instant

\* The corner of the grid the pointer moves over: two members, two weeks.
DragGrid ==
    {<<member, week>> : member \in {NewUuid(1, 1), NewUuid(1, 3)},
                        week \in {Ymd(2025, 1, 1), Ymd(2025, 1, 8)}}

\* The palette's selection: nothing, a project of the plan, or a project
\* that has left the plan since it was selected.
DragSelections ==
    {SelectedNone, Technical(NewUuid(1, 9)), Technical(NewUuid(1, 11)),
     Technical(NewUuid(2, 9))}

\* AllocationView's signals of a drag.
DragSignals(selected_project, is_dragging, drag_cells) ==
    [selected_project |-> selected_project, is_dragging |-> is_dragging,
     drag_cells |-> drag_cells]

\* The sample plan is open in paintbrush mode, the mouse button is up.
InitDrag ==
    /\ preferences = create_sample_plan(1)[1]
    /\ plan_state = create_sample_plan(1)[2]
    /\ viewing_session = None
    /\ storage = AutoSaveEffects(EmptyStorage, preferences, plan_state, viewing_session)
    /\ clipboard = None
    /\ sample_runs = 1
    /\ lastOp = Did("start", TRUE)
    /\ \E selected \in DragSelections : input = Some(DragSignals(selected, FALSE, << >>))
    /\ output = None

\* allocate_to_cell with the paintbrush active.
DragAllocate(cell) ==
    LET r == allocate_project_to_cell(plan_state, input[1].selected_project,
                                      cell[1], cell[2],
                                      preferences.sprint_anchor_date,
                                      preferences.sprint_length_weeks)
    IN  /\ plan_state' = r.state
        /\ lastOp' = Did("allocate_to_cell", r.ok)

\* handle_cell_mousedown: a drag starts on a cell (also when the mouseup of
\* the drag before was never delivered).  `output` keeps the plan the drag
\* started on.
HandleCellMousedown ==
    /\ plan_state.metadata.modified_at < MaxDragPaints
    /\ \E cell \in DragGrid :
          /\ input' = Some(DragSignals(input[1].selected_project, TRUE, <<cell>>))
          /\ DragAllocate(cell)
    /\ output' = Some(plan_state)
    /\ UNCHANGED <<preferences, viewing_session, clipboard, sample_runs>>
    /\ AutoSave

\* handle_cell_mouseenter while dragging: the pointer crosses into a cell.
HandleCellMouseenter ==
    /\ input[1].is_dragging
    /\ plan_state.metadata.modified_at < MaxDragPaints
    /\ \E cell \in DragGrid :
          /\ input' = Some(DragSignals(
                          input[1].selected_project, TRUE,
                          IF cell \in Range(input[1].drag_cells)
                          THEN input[1].drag_cells
                          ELSE Append(input[1].drag_cells, cell)))
          /\ DragAllocate(cell)
    /\ UNCHANGED <<preferences, viewing_session, clipboard, sample_runs, output>>
    /\ AutoSave

\* handle_mouseup: the drag ends.
HandleMouseup ==
    /\ input[1].is_dragging
    /\ input' = Some(DragSignals(input[1].selected_project, FALSE, << >>))
    /\ lastOp' = Did("handle_mouseup", TRUE)
    /\ UNCHANGED <<preferences, plan_state, viewing_session, storage, clipboard,
                   sample_runs, output>>

NextDrag == HandleCellMousedown \/ HandleCellMouseenter \/ HandleMouseup

SpecDrag == InitDrag /\ [][NextDrag]_vars

\* The allocations of a plan outside the given cells.
AllocationsOutside(state, cells) ==
    {a \in Range(state.allocations) : <<a.team_member_id, a.week_start_date>> \notin cells}

\* The cell holds exactly what the selection paints: nothing for
\* SelectedProject::None, else one allocation assigning the project 100%.
HoldsPainted(state, cell, selected_project) ==
    LET at == SelectSeq(state.allocations, LAMBDA a : AtCell(a, cell[1], cell[2]))
    IN  IF selected_project = SelectedNone THEN at = << >>
        ELSE /\ Len(at) = 1
             /\ at[1].assignments = <<Assignment(selected_project[1], MaxPercentage)>>

\* C18: at every point of a drag that paints (the selection is None or a
\* project of the plan), exactly the cells crossed so far, c1..ck in
\* crossing order, hold the painted assignment, every other cell is as the
\* drag found it, and no cell has more than one Allocation.
C18_DragPaintsPrefix ==
    (input # None /\ input[1].is_dragging
     /\ (input[1].selected_project = SelectedNone
         \/ HasTechnicalProject(output[1], input[1].selected_project[1]))) =>
        LET crossed == input[1].drag_cells
        IN  /\ lastOp.ok
            /\ \A i \in 1..Len(crossed) :
                  HoldsPainted(plan_state, crossed[i], input[1].selected_project)
            /\ \A i, j \in 1..Len(crossed) : i # j => crossed[i] # crossed[j]
            /\ AllocationsOutside(plan_state, Range(crossed))
                   = AllocationsOutside(output[1], Range(crossed))
            /\ \A i, j \in 1..Len(plan_state.allocations) :
                  SameCell(plan_state.allocations[i], plan_state.allocations[j]) => i = j

\* A drag with a project of the plan has crossed three cells, one of them
\* allocated to another project before, and a fourth allocated cell is
\* untouched.
C18_Witness ==
    /\ input # None
    /\ input[1].is_dragging
    /\ input[1].selected_project = Technical(NewUuid(1, 9))
    /\ Len(input[1].drag_cells) = 3
    /\ \E i \in 1..3 :
          ~HoldsPainted(output[1], input[1].drag_cells[i], input[1].selected_project)
    /\ AllocationsOutside(plan_state, Range(input[1].drag_cells)) # {}

-----------------------------------------------------------------------------
(* allocate_project_to_cell as a function ----------------------------------- *)

\* The plans the paintbrush is called on: fresh, the sample plan, and the
\* sample plan with a cell split between two projects.
PaintPlans ==
    {DefaultPlanState(Ymd(2025, 1, 2)),
     create_sample_plan(1)[2],
     [create_sample_plan(1)[2] EXCEPT
         !.allocations = ReplaceCell(@, NewUuid(1, 1), Ymd(2025, 1, 1),
                                     <<Assignment(NewUuid(1, 9), 50),
                                       Assignment(NewUuid(1, 10), 50)>>)]}

\* Nothing, projects of the sample plan, and identifiers no plan here has.
PaintSelections ==
    {SelectedNone, Technical(NewUuid(1, 9)), Technical(NewUuid(1, 12)),
     Technical(NewUuid(2, 9)), Technical(NewUuid(1, 1))}

PaintInputs ==
    {[state |-> state, selected_project |-> selected, team_member_id |-> member,
      week_start |-> week, sprint_anchor_date |-> config[1],
      sprint_length_weeks |-> config[2]] :
        state \in PaintPlans,
        selected \in PaintSelections,
        member \in {NewUuid(1, 1), NewUuid(1, 4)},
        week \in {Ymd(2025, 1, 1), Ymd(2025, 1, 8), Ymd(2025, 3, 26)},
        config \in DateSprintConfigs}

InitPaint ==
    /\ NoSession
    /\ input \in PaintInputs
    /\ output = None

CallAllocateProjectToCell ==
    /\ output = None
    /\ output' = Some(allocate_project_to_cell(
                          input.state, input.selected_project, input.team_member_id,
                          input.week_start, input.sprint_anchor_date,
                          input.sprint_length_weeks))
    /\ UNCHANGED <<preferences, plan_state, viewing_session, storage, clipboard,
                   sample_runs, lastOp, input>>

SpecPaint == InitPaint /\ [][CallAllocateProjectToCell]_vars

\* The selection names a technical project the plan does not have.
SelectsMissingProject(state, selected_project) ==
    /\ selected_project # SelectedNone
    /\ ~HasTechnicalProject(state, selected_project[1])

\* C19: allocate_project_to_cell returns false exactly when the selection is
\* Technical(id) and no technical project of the plan has that id, and then
\* the PlanState it was given (allocations, project dates, metadata) is
\* unchanged; in every other case it returns true.
C19_MissingProjectRejected ==
    output # None =>
        /\ output[1].ok = ~SelectsMissingProject(input.state, input.selected_project)
        /\ ~output[1].ok => output[1].state = input.state

\* A paint with a project the plan lacks, on a cell that holds an allocation,
\* has returned false.
C19_Witness ==
    /\ output # None
    /\ ~output[1].ok
    /\ input.selected_project = Technical(NewUuid(2, 9))
    /\ ProjectsAtCell(input.state.allocations, input.team_member_id,
                      input.week_start) # << >>

-----------------------------------------------------------------------------
(* get_capacity_status (crates/planner-core/src/models/plan.rs) ------------- *)

\* An f32 as sign, significand and exponent: (-1)^neg * m * 2^x, where m is 0
\* or has exactly F32SignificandBits binary digits.  The values used here
\* stay clear of the exponent range's ends.
F32(neg, m, x) == [neg |-> neg, m |-> m, x |-> x]

F32Zero == F32(FALSE, 0, 0)

\* The f32 nearest to n * 2^x, ties to even.  Where n has two or more digits
\* beyond the significand, an odd n also stands for every real strictly
\* between its even neighbours (the sticky digit).
F32Nearest(neg, n, x) ==
    IF n = 0 THEN F32Zero
    ELSE LET extra == BitLength(n) - F32SignificandBits
         IN  IF extra <= 0 THEN F32(neg, n * 2 ^ (-extra), x + extra)
             ELSE LET m == RoundTiesEven(n, 2 ^ extra)
                  IN  IF m = 2 ^ F32SignificandBits
                      THEN F32(neg, m \div 2, x + extra + 1)
                      ELSE F32(neg, m, x + extra)

\* |a| < |b|
MagnitudeLess(a, b) ==
    IF b.m = 0 THEN FALSE
    ELSE IF a.m = 0 THEN TRUE
    ELSE a.x < b.x \/ (a.x = b.x /\ a.m < b.m)

\* n shifted right by d digits, the digits shifted out gathered into the
\* last one.
ShiftRightSticky(n, d) ==
    IF d > 30 THEN (IF n = 0 THEN 0 ELSE 1)
    ELSE LET q == n \div (2 ^ d)
         IN  IF n % (2 ^ d) # 0 /\ q % 2 = 0 THEN q + 1 ELSE q

\* |big| - |small| with three guard digits, rounded, carrying the sign neg.
MagnitudeDifference(neg, big, small) ==
    F32Nearest(neg, big.m * 8 - ShiftRightSticky(small.m * 8, big.x - small.x),
               big.x - 3)

\* a - b on f32, for a and b that are not negative.
F32Sub(a, b) ==
    IF b.m = 0 THEN a
    ELSE IF a.m = 0 THEN [b EXCEPT !.neg = TRUE]
    ELSE IF MagnitudeLess(a, b) THEN MagnitudeDifference(TRUE, b, a)
    ELSE MagnitudeDifference(FALSE, a, b)

\* The quotient's binary digits, one per step, and the sticky digit last.
RECURSIVE LongDivision(_, _, _, _)
LongDivision(remainder, divisor, quotient, digits) ==
    IF digits = 0 THEN 2 * quotient + (IF remainder = 0 THEN 0 ELSE 1)
    ELSE IF 2 * remainder >= divisor
         THEN LongDivision(2 * remainder - divisor, divisor, 2 * quotient + 1,
                           digits - 1)
         ELSE LongDivision(2 * remainder, divisor, 2 * quotient, digits - 1)

\* a / b on f32, b not zero.
F32Div(a, b) ==
    IF a.m = 0 THEN F32Zero
    ELSE F32Nearest(a.neg # b.neg,
                    LongDivision(a.m % b.m, b.m, a.m \div b.m,
                                 F32SignificandBits + 2),
                    a.x - b.x - (F32SignificandBits + 3))

\* a * 100.0 on f32
F32TimesHundred(a) == F32Nearest(a.neg, a.m * 100, a.x)

\* f32::abs
F32Abs(a) == [a EXCEPT !.neg = FALSE]

\* a <= b on f32, for a and b that are not negative.
F32Le(a, b) == ~MagnitudeLess(b, a)

\* The f32 of an integer literal, and of the decimal literal p / q.
F32FromInt(n) == F32Nearest(FALSE, n, 0)
F32Literal(p, q) == F32Div(F32FromInt(p), F32FromInt(q))

\* A get_capacity_status that compares the signed difference.
capacity_status_signed(allocated, estimated) ==
    IF estimated.m = 0
    THEN (IF allocated.m = 0 THEN "Neutral" ELSE "Warning")
    ELSE LET diff_pct == F32TimesHundred(F32Div(F32Sub(allocated, estimated),
                                                estimated))
         IN  IF diff_pct.neg \/ F32Le(diff_pct, F32FromInt(5)) THEN "Success"
             ELSE IF F32Le(diff_pct, F32FromInt(25)) THEN "Warning"
             ELSE "Error"

\* get_capacity_status: a BadgeType.
get_capacity_status(allocated, estimated) ==
    IF estimated.m = 0
    THEN (IF allocated.m = 0 THEN "Neutral" ELSE "Warning")
    ELSE LET diff_pct == F32Abs(F32TimesHundred(
                             F32Div(F32Sub(allocated, estimated), estimated)))
         IN  IF F32Le(diff_pct, F32FromInt(5)) THEN "Success"
             ELSE IF F32Le(diff_pct, F32FromInt(25)) THEN "Warning"
             ELSE "Error"

\* The neighbours of a positive f32.
F32Succ(a) == F32Nearest(FALSE, a.m + 1, a.x)
F32Pred(a) ==
    IF a.m = 2 ^ (F32SignificandBits - 1)
    THEN F32(FALSE, 2 ^ F32SignificandBits - 1, a.x - 1)
    ELSE F32(FALSE, a.m - 1, a.x)

\* Weeks, in tenths: the values of the unit tests and others around them.
CapacityTenths == {1, 10, 50, 74, 75, 94, 95, 100, 104, 105, 106, 125, 126, 200}

\* Zero, the weeks above with their f32 neighbours, and two pairs whose real
\* difference is the least above 5% and above 25% that f32 can express.
CapacityValues ==
    LET weeks == {F32Literal(tenths, 10) : tenths \in CapacityTenths}
    IN  {F32Zero} \cup weeks
        \cup {F32Succ(w) : w \in weeks} \cup {F32Pred(w) : w \in weeks}
        \cup {F32(FALSE, 16777199, -20), F32(FALSE, 15938339, -20),
              F32(FALSE, 16777215, -20), F32(FALSE, 12582911, -20)}

InitCapacity ==
    /\ NoSession
    /\ \E allocated, estimated \in CapacityValues :
          input = [allocated |-> allocated, estimated |-> estimated]
    /\ output = None

CallGetCapacityStatus ==
    /\ output = None
    /\ output' = Some(get_capacity_status(input.allocated, input.estimated))
    /\ UNCHANGED <<preferences, plan_state, viewing_session, storage, clipboard,
                   sample_runs, lastOp, input>>

SpecCapacity == InitCapacity /\ [][CallGetCapacityStatus]_vars

\* parts * |allocated - estimated| <= estimated in exact arithmetic, for
\* estimated > 0 and parts >= 2.  Exponents two or more apart put allocated
\* above twice or below half of estimated.
RealWithin(allocated, estimated, parts) ==
    LET d == allocated.x - estimated.x
    IN  /\ allocated.m # 0
        /\ d \in {-1, 0, 1}
        /\ LET a == allocated.m * (IF d = 1 THEN 2 ELSE 1)
               e == estimated.m * (IF d = -1 THEN 2 ELSE 1)
           IN  parts * (IF a >= e THEN a - e ELSE e - a) <= e

\* The status the thresholds give on the exact |allocated - estimated| /
\* estimated * 100: at most 5 is a 20th of estimated, at most 25 a 4th.
RealStatus(allocated, estimated) ==
    IF estimated.m = 0
    THEN (IF allocated.m = 0 THEN "Neutral" ELSE "Warning")
    ELSE IF RealWithin(allocated, estimated, 20) THEN "Success"
    ELSE IF RealWithin(allocated, estimated, 4) THEN "Warning"
    ELSE "Error"

\* over and under are as far above and below estimated, exactly:
\* over + under = 2 * estimated, in units of the smallest exponent.
Mirrored(over, under, estimated) ==
    LET xs == {v.x : v \in {w \in {over, under, estimated} : w.m # 0}}
        base == CHOOSE x \in xs : \A y \in xs : x <= y
        units(v) == IF v.m = 0 THEN 0 ELSE v.m * 2 ^ (v.x - base)
    IN  /\ estimated.m # 0
        /\ \A x \in xs : x - base <= 5
        /\ units(over) + units(under) = 2 * units(estimated)

\* C20: for non-negative allocated and estimated, get_capacity_status is
\* Neutral at (0, 0), Warning when only estimated is 0, and for estimated > 0
\* Success when the exact |allocated - estimated| / estimated * 100 is at
\* most 5, Warning when it is above 5 and at most 25, Error otherwise; it is
\* never Info, and over- and under-allocation by the same amount get the
\* same status.
C20_CapacityStatusThresholds ==
    output # None =>
        /\ output[1] = RealStatus(input.allocated, input.estimated)
        /\ output[1] # "Info"
        /\ \A other \in CapacityValues :
              Mirrored(input.allocated, other, input.estimated)
                  => get_capacity_status(other, input.estimated) = output[1]

\* An allocation above its estimate by the least f32 can express beyond 5%
\* has got Warning, and its mirror image below the estimate is among the
\* values.
C20_Witness ==
    /\ output = Some("Warning")
    /\ MagnitudeLess(input.estimated, input.allocated)
    /\ RealWithin(F32Pred(input.allocated), input.estimated, 20)
    /\ \E other \in CapacityValues :
          /\ other # input.allocated
          /\ Mirrored(input.allocated, other, input.estimated)

-----------------------------------------------------------------------------
(* The capacity status of a grid column header                              *)
(* (src/components/views/allocation_view.rs).                                *)

\* The CSS class Badge gives a BadgeType, without its "status-badge " prefix.
BadgeClass(badge) ==
    CASE badge = "Success" -> "success"
      [] badge = "Warning" -> "warning"
      [] badge = "Error" -> "error"
      [] badge = "Info" -> "info"
      [] badge = "Neutral" -> "neutral"

\* AllocationView's column header: capacity_status of an engineer from the
\* allocated weeks and the capacity.
header_capacity_status(allocated, capacity) ==
    LET diff == F32Abs(F32Sub(allocated, capacity))
    IN  IF F32Le(diff, F32Literal(1, 2)) THEN "success"
        ELSE IF F32Le(diff, F32FromInt(1)) THEN "warning"
        ELSE "error"

\* The capacities of the sample team besides the weeks of CapacityValues.
HeaderCapacities == CapacityValues \cup {F32FromInt(6), F32FromInt(12)}

InitHeader ==
    /\ NoSession
    /\ \E allocated \in CapacityValues, capacity \in HeaderCapacities :
          input = [allocated |-> allocated, capacity |-> capacity]
    /\ output = None

\* The header of one engineer is rendered.
RenderEngineerHeader ==
    /\ output = None
    /\ output' = Some(header_capacity_status(input.allocated, input.capacity))
    /\ UNCHANGED <<preferences, plan_state, viewing_session, storage, clipboard,
                   sample_runs, lastOp, input>>

SpecHeader == InitHeader /\ [][RenderEngineerHeader]_vars

\* C21: the capacity status in an engineer's column header is the status
\* get_capacity_status gives the engineer's allocated weeks and capacity.
C21_HeaderStatusIsCapacityStatus ==
    output # None =>
        output[1] = BadgeClass(get_capacity_status(input.allocated, input.capacity))

-----------------------------------------------------------------------------
(* generate_quarter_weeks (crates/planner-core/src/utils/date_helpers.rs) -- *)

MaxQuarterWeeks == 13   \* num_weeks of the lists generated here

\* A Monday, a Wednesday, a leap day and a day whose quarter crosses the year.
QuarterStarts == {Ymd(2024, 1, 1), Ymd(2025, 1, 1), Ymd(2024, 2, 29), Ymd(2025, 10, 1)}

InitWeeks ==
    /\ NoSession
    /\ \E quarter_start \in QuarterStarts, num_weeks \in 0..MaxQuarterWeeks,
          sprint_length_weeks \in 1..MaxSprintLength :
          input = [quarter_start |-> quarter_start, num_weeks |-> num_weeks,
                   sprint_length_weeks |-> sprint_length_weeks]
    /\ output = << >>

\* One call; `output` lists what the calls so far have returned.
CallGenerateQuarterWeeks ==
    /\ Len(output) < 2
    /\ output' = Append(output, generate_quarter_weeks(
                                    input.quarter_start, input.num_weeks,
                                    input.sprint_length_weeks))
    /\ UNCHANGED <<preferences, plan_state, viewing_session, storage, clipboard,
                   sample_runs, lastOp, input>>

SpecWeeks == InitWeeks /\ [][CallGenerateQuarterWeeks]_vars

\* s is floor(k / len) + 1.
IsFloorPlusOne(s, k, len) == (s - 1) * len <= k /\ k < s * len

\* C22: generate_quarter_weeks returns num_weeks entries, week_number
\* running 1..num_weeks in order, start_date = quarter_start + 7 *
\* (week_number - 1) days, sprint_number = floor((week_number - 1) /
\* sprint_length_weeks) + 1 (non-decreasing, 1 for week 1), and a second
\* call with the same arguments returns the same list.
C22_QuarterWeeks ==
    \A c \in 1..Len(output) :
        LET weeks == output[c]
        IN  /\ Len(weeks) = input.num_weeks
            /\ \A n \in 1..Len(weeks) :
                  /\ weeks[n].week_number = n
                  /\ weeks[n].start_date = input.quarter_start + 7 * (n - 1)
                  /\ IsFloorPlusOne(weeks[n].sprint_number, n - 1,
                                    input.sprint_length_weeks)
                  /\ n > 1 => weeks[n - 1].sprint_number <= weeks[n].sprint_number
            /\ Len(weeks) > 0 => weeks[1].sprint_number = 1
            /\ output[c] = output[1]

\* Two calls have returned the thirteen weeks of a quarter that starts on a
\* Wednesday and has sprints of three weeks.
C22_Witness ==
    /\ Len(output) = 2
    /\ input.num_weeks = 13
    /\ input.sprint_length_weeks = 3
    /\ input.quarter_start = Ymd(2025, 1, 1)
    /\ output[2][13].sprint_number = 5

-----------------------------------------------------------------------------
(* QuarterWeek::is_sprint_start against get_sprint_boundaries --------------- *)

\* A sprint-start test on the week number itself.
sprint_start_by_week_number(week) ==
    week.week_number % week.sprint_length_weeks = 0

\* QuarterWeek::is_sprint_start
is_sprint_start(week) ==
    (week.week_number - 1) % week.sprint_length_weeks = 0

\* get_sprint_boundaries for a week of the list, the sprint anchor being the
\* quarter's start.
AnchoredBoundaries(week) ==
    get_sprint_boundaries(week.start_date, input.quarter_start,
                          week.sprint_length_weeks)

\* C30: with the sprint anchor equal to quarter_start, a week of
\* generate_quarter_weeks is a sprint start exactly when its start_date is
\* the sprint_start get_sprint_boundaries returns for it, and two weeks have
\* the same sprint_number exactly when get_sprint_boundaries returns the
\* same (sprint_start, sprint_end) for both.
C30_SprintStructureAgrees ==
    \A c \in 1..Len(output) :
        LET weeks == output[c]
        IN  /\ \A n \in 1..Len(weeks) :
                  is_sprint_start(weeks[n])
                      <=> weeks[n].start_date = AnchoredBoundaries(weeks[n])[1]
            /\ \A i, j \in 1..Len(weeks) :
                  (weeks[i].sprint_number = weeks[j].sprint_number)
                      <=> AnchoredBoundaries(weeks[i]) = AnchoredBoundaries(weeks[j])

\* A list of thirteen weeks in sprints of four: week 5 starts a sprint, week
\* 6 is inside it, the last sprint is cut short by the quarter's end.
C30_Witness ==
    /\ Len(output) >= 1
    /\ input.num_weeks = 13
    /\ input.sprint_length_weeks = 4
    /\ is_sprint_start(output[1][5])
    /\ ~is_sprint_start(output[1][6])
    /\ AnchoredBoundaries(output[1][13])[2] > output[1][13].start_date + 6

-----------------------------------------------------------------------------
(* calculate_project_allocated_weeks against the exact sum ------------------ *)

MaxWeekAllocations == 3   \* allocations in the plan the total is taken of

\* One allocation per week by a listed member or by one that is not.
WeekAllocationLists ==
    LET cells == {<<member, assignments>> :
                    member \in {RoleEngineer, RoleDeleted},
                    assignments \in RoleAssignments}
        lists == UNION {[1..n -> cells] : n \in 0..MaxWeekAllocations}
    IN  {[i \in 1..Len(list) |->
             [Allocation(list[i][1], Ymd(2025, 1, 1) + DaysPerWeek * (i - 1))
                 EXCEPT !.assignments = list[i][2]]] : list \in lists}

InitProjectWeeks ==
    /\ NoSession
    /\ \E allocations \in WeekAllocationLists :
          input = [state |-> RolePlan(allocations, None),
                   technical_project_id |-> RoleProjectA]
    /\ output = None

CallProjectAllocatedWeeks ==
    /\ output = None
    /\ output' = Some([project |-> calculate_project_allocated_weeks(
                                       input.state, input.technical_project_id)])
    /\ UNCHANGED <<preferences, plan_state, viewing_session, storage, clipboard,
                   sample_runs, lastOp, input>>

SpecProjectWeeks == InitProjectWeeks /\ [][CallProjectAllocatedWeeks]_vars

\* The orders a list of n allocations can be in.
Orders(n) == {f \in [1..n -> 1..n] : \A i, j \in 1..n : f[i] = f[j] => i = j}

Reordered(state, order) ==
    [state EXCEPT !.allocations = [i \in 1..Len(@) |-> @[order[i]]]]

\* The plan after its technical projects were removed and each allocation
\* handed to a member that is not listed.
WithoutProjectsAndMembers(state) ==
    [state EXCEPT !.technical_projects = << >>,
                  !.allocations = [i \in 1..Len(@) |->
                                      [@[i] EXCEPT !.team_member_id = RoleDeleted]]]

\* The percentages of all assignments to the project.
RECURSIVE ProjectPercentages(_, _)
ProjectPercentages(allocations, technical_project_id) ==
    IF allocations = << >> THEN << >>
    ELSE MapSeq(SelectSeq(Head(allocations).assignments,
                          LAMBDA a : a.technical_project_id = technical_project_id),
                LAMBDA a : a.percentage)
         \o ProjectPercentages(Tail(allocations), technical_project_id)

RECURSIVE SumOf(_)
SumOf(numbers) == IF numbers = << >> THEN 0 ELSE Head(numbers) + SumOf(Tail(numbers))

\* The exact percentage / 100 in units of 2^-F32FractionBits, rounded down
\* and rounded up.
ExactWeeksFloor(percentage) ==
    percentage * (2 ^ F32FractionBits \div 100)
        + (percentage * (2 ^ F32FractionBits % 100)) \div 100

ExactWeeksCeil(percentage) ==
    ExactWeeksFloor(percentage)
        + (IF (percentage * (2 ^ F32FractionBits % 100)) % 100 = 0 THEN 0 ELSE 1)

\* The total is within n units in its last place of the exact sum of the
\* percentages / 100.
WithinUlpsOfExact(total, percentages, n) ==
    /\ total <= ExactWeeksFloor(SumOf(percentages)) + n * Ulp(total)
    /\ total >= ExactWeeksCeil(SumOf(percentages)) - n * Ulp(total)

\* The total does not depend on whether members and projects exist.
IndependentOfExistence ==
    calculate_project_allocated_weeks(WithoutProjectsAndMembers(input.state),
                                      input.technical_project_id)
        = output[1].project

\* C23 as stated: the total is the sum of the shares of the project, is the
\* same in every order of the allocations, and does not depend on whether
\* the member or the project exists.
C23_SumInEveryOrder ==
    output # None =>
        /\ IndependentOfExistence
        /\ \A order \in Orders(Len(input.state.allocations)) :
              calculate_project_allocated_weeks(Reordered(input.state, order),
                                                input.technical_project_id)
                  = output[1].project

\* C23, amended: the total is the f32 sum of the shares percentage / 100 in
\* allocation order.  It is within n units in the last place of the exact
\* sum, n the number of assignments to the project; two orders agree within
\* n units in the last place, and exactly when every share is 0, 50 or 100
\* percent; it does not depend on whether the member or the project exists.
C23_SumUpToRounding ==
    output # None =>
        LET percentages == ProjectPercentages(input.state.allocations,
                                              input.technical_project_id)
            n == Len(percentages)
        IN  /\ IndependentOfExistence
            /\ WithinUlpsOfExact(output[1].project, percentages, n)
            /\ \A order \in Orders(Len(input.state.allocations)) :
                  LET other == calculate_project_allocated_weeks(
                                   Reordered(input.state, order),
                                   input.technical_project_id)
                  IN  /\ AgreeUpToRounding(other, output[1].project, n)
                      /\ Range(percentages) \subseteq {0, 50, 100}
                             => other = output[1].project

\* Three allocations give the project 10, 10 and 50 percent, one of them by
\* a member that is not listed; another order of the three has another total.
C23_Witness ==
    /\ output # None
    /\ ProjectPercentages(input.state.allocations, input.technical_project_id)
           = <<10, 10, 50>>
    /\ \E i \in 1..3 : input.state.allocations[i].team_member_id = RoleDeleted
    /\ \E order \in Orders(3) :
          calculate_project_allocated_weeks(Reordered(input.state, order),
                                            input.technical_project_id)
              # output[1].project

-----------------------------------------------------------------------------
(* Queries on a project's allocations (models/plan_state.rs) ---------------- *)

\* member_ids.dedup(): consecutive repetitions removed.
RECURSIVE Dedup(_)
Dedup(s) ==
    IF Len(s) <= 1 THEN s
    ELSE IF s[1] = s[2] THEN Dedup(Tail(s))
    ELSE <<s[1]>> \o Dedup(Tail(s))

\* PlanState::get_assigned_team_members
get_assigned_team_members(state, technical_project_id) ==
    Dedup(SortDates(MapSeq(SelectSeq(state.allocations,
                                     LAMBDA alloc : AssignsProject(alloc, technical_project_id)),
                           LAMBDA alloc : alloc.team_member_id)))

\* A date range taken from the first and the last allocation of the list.
range_in_list_order(state, technical_project_id) ==
    LET allocation_weeks == AllocationWeeks(state, technical_project_id)
    IN  IF allocation_weeks = << >> THEN None
        ELSE Some(<<allocation_weeks[1], allocation_weeks[Len(allocation_weeks)]>>)

\* PlanState::get_project_allocation_date_range
get_project_allocation_date_range(state, technical_project_id) ==
    LET allocation_weeks == AllocationWeeks(state, technical_project_id)
    IN  IF allocation_weeks = << >> THEN None
        ELSE LET sorted == SortDates(allocation_weeks)
             IN  Some(<<sorted[1], sorted[Len(sorted)]>>)

MaxQueryAllocations == 3   \* allocations in the plan the queries run on

\* Cells of the two listed members in three weeks, whole or split.
QueryAllocationLists ==
    LET cells == {[Allocation(member, week) EXCEPT !.assignments = assignments] :
                    member \in {RoleEngineer, RoleScientist},
                    week \in {Ymd(2025, 1, 1), Ymd(2025, 1, 8), Ymd(2025, 1, 22)},
                    assignments \in {<<Assignment(RoleProjectA, 100)>>,
                                     <<Assignment(RoleProjectA, 50),
                                       Assignment(RoleProjectB, 50)>>}}
        lists == UNION {[1..n -> cells] : n \in 0..MaxQueryAllocations}
    IN  {list \in lists :
            \A i, j \in 1..Len(list) : SameCell(list[i], list[j]) => i = j}

\* The queried project: allocated whole and in splits, only in splits, or a
\* project nothing is assigned to.
InitQueries ==
    /\ NoSession
    /\ \E allocations \in QueryAllocationLists,
          id \in {RoleProjectA, RoleProjectB, RoleDeleted} :
          input = [state |-> RolePlan(allocations, None), team_members |-> RoleTeam,
                   technical_project_id |-> id]
    /\ output = None

\* A row of the Technical view asks for all four aggregates.
CallProjectQueries ==
    /\ output = None
    /\ output' = Some([weeks |-> calculate_project_allocated_weeks(
                                     input.state, input.technical_project_id),
                       by_role |-> calculate_technical_project_allocated_by_role(
                                       input.state, input.technical_project_id,
                                       input.team_members),
                       members |-> get_assigned_team_members(
                                       input.state, input.technical_project_id),
                       range |-> get_project_allocation_date_range(
                                     input.state, input.technical_project_id)])
    /\ UNCHANGED <<preferences, plan_state, viewing_session, storage, clipboard,
                   sample_runs, lastOp, input>>

SpecQueries == InitQueries /\ [][CallProjectQueries]_vars

\* C24: for a project no assignment references, the allocated weeks are 0,
\* the by-role aggregate is (0, 0, 0), the assigned members are none and the
\* date range is None; for a referenced project the range is
\* Some((earliest, latest)), earliest <= latest, over exactly the weeks that
\* have an assignment to it.
C24_QueriesOfProject ==
    output # None =>
        LET weeks == WeeksOf(input.state, input.technical_project_id)
        IN  IF weeks = {}
            THEN /\ output[1].weeks = 0
                 /\ output[1].by_role = [eng |-> 0, sci |-> 0, total |-> 0]
                 /\ output[1].members = << >>
                 /\ output[1].range = None
            ELSE /\ output[1].range = Some(<<SetMin(weeks), SetMax(weeks)>>)
                 /\ output[1].range[1][1] <= output[1].range[1][2]

\* The queries ran for a project that is assigned in two weeks listed latest
\* first, in a plan that has a third, later week of another project only.
C24_Witness ==
    /\ output # None
    /\ input.technical_project_id = RoleProjectB
    /\ Len(AllocationWeeks(input.state, RoleProjectB)) = 2
    /\ AllocationWeeks(input.state, RoleProjectB)[1]
           > AllocationWeeks(input.state, RoleProjectB)[2]
    /\ \E i \in 1..Len(input.state.allocations) :
          input.state.allocations[i].week_start_date > output[1].range[1][2]

-----------------------------------------------------------------------------
(* get_next_quarter_info (crates/planner-core/src/utils/date_helpers.rs) ---- *)

MaxDayOffset == 730   \* today lies within this many days of 2024-01-01

InitQuarter ==
    /\ NoSession
    /\ \E offset \in 0..MaxDayOffset : input = Ymd(2024, 1, 1) + offset
    /\ output = None

CallGetNextQuarterInfo ==
    /\ output = None
    /\ output' = Some(get_next_quarter_info(input))
    /\ UNCHANGED <<preferences, plan_state, viewing_session, storage, clipboard,
                   sample_runs, lastOp, input>>

SpecQuarter == InitQuarter /\ [][CallGetNextQuarterInfo]_vars

\* The first days of the quarters of the years around today.
QuarterStartDays ==
    {Ymd(year, month, 1) : year \in (EpochYear - 1)..(EpochYear + 4),
                           month \in {1, 4, 7, 10}}

-----------------------------------------------------------------------------
(* The clipboard across a replaced plan ------------------------------------- *)

MaxClipboardLoads == 2   \* runs of create_sample_plan in a clipboard session

\* SettingsModal on_load_sample_data, from the allocation view: the view
\* stays mounted and keeps its clipboard.
LoadSampleDataAgain ==
    /\ Idle
    /\ sample_runs < MaxClipboardLoads
    /\ sample_runs' = sample_runs + 1
    /\ preferences' = create_sample_plan(sample_runs + 1)[1]
    /\ plan_state' = create_sample_plan(sample_runs + 1)[2]
    /\ lastOp' = Did("LoadSampleData", TRUE)
    /\ UNCHANGED <<viewing_session, clipboard, input, output>>
    /\ AutoSave

NextClipboard ==
    \/ LoadSampleDataAgain
    \/ PaintCell
    \/ KeyDelete
    \/ KeyCopy
    \/ KeyPaste
    \/ ContextClear
    \/ AssignApply
    \/ SplitApply
    \/ ConfirmDeleteTechnicalProject

SpecClipboard == Init /\ [][NextClipboard]_vars

\* C26: every Assignment.technical_project_id in plan_state.allocations is
\* the id of a project in technical_projects.
C26_AssignmentsReferenceProjects ==
    \A i \in 1..Len(plan_state.allocations) :
        \A k \in 1..Len(plan_state.allocations[i].assignments) :
            plan_state.allocations[i].assignments[k].technical_project_id
                \in Ids(plan_state.technical_projects)

------------------------------------------------------------------------------
(* The dates the paintbrush derives and the weeks it allocated             *)
(* (specification SpecPaint).                                              *)

\* The project's dates span each week allocated to it, first day to last.
SpansAllocatedWeeks(state, technical_project_id) ==
    LET project == ProjectOf(state, technical_project_id)
    IN  \A week \in WeeksOf(state, technical_project_id) :
            /\ project.start_date <= week
            /\ project.expected_completion # None
            /\ project.expected_completion[1] >= week + 6

\* C27: after a paintbrush assign, for any sprint anchor date and sprint
\* length, the painted project's derived dates cover its allocations:
\* start_date <= the week_start_date of every Allocation assigned to it and
\* expected_completion >= that week_start_date + 6 days, so that no cell the
\* paintbrush allocated is flagged is_before_start.
C27_DerivedDatesCoverAllocations ==
    (/\ output # None
     /\ output[1].ok
     /\ input.selected_project # SelectedNone)
        => SpansAllocatedWeeks(output[1].state, input.selected_project[1])

------------------------------------------------------------------------------
(* The delete confirmation of the Technical view (specification Spec).     *)

\* The project that is in the plan before the step and not after it.
DeletedProjects(before, after) ==
    {before.technical_projects[i].id : i \in DOMAIN before.technical_projects}
        \ {after.technical_projects[i].id : i \in DOMAIN after.technical_projects}

AssignmentsToOthers(alloc, id) ==
    SelectSeq(alloc.assignments, LAMBDA a : a.technical_project_id # id)

\* The positions of the Allocations that still hold an assignment once the
\* assignments to the project are taken out, in list order.
RECURSIVE SurvivingPositions(_, _, _)
SurvivingPositions(allocations, id, from) ==
    IF from > Len(allocations) THEN << >>
    ELSE (IF AssignmentsToOthers(allocations[from], id) # << >>
          THEN <<from>> ELSE << >>)
         \o SurvivingPositions(allocations, id, from + 1)

\* after is before without the project, without the assignments to it and
\* without the Allocations that hold nothing; what remains is as it was.
DeletedFrom(before, after, id) ==
    LET surviving == SurvivingPositions(before.allocations, id, 1)
    IN  /\ after.technical_projects =
              SelectSeq(before.technical_projects, LAMBDA p : p.id # id)
        /\ \A k \in DOMAIN after.allocations :
              /\ after.allocations[k].assignments # << >>
              /\ \A j \in DOMAIN after.allocations[k].assignments :
                    after.allocations[k].assignments[j].technical_project_id # id
        /\ Len(after.allocations) = Len(surviving)
        /\ \A k \in DOMAIN surviving :
              LET old == before.allocations[surviving[k]]
                  new == after.allocations[k]
              IN  /\ new.team_member_id = old.team_member_id
                  /\ new.week_start_date = old.week_start_date
                  /\ new.assignments = AssignmentsToOthers(old, id)
                  /\ ~AssignsProject(old, id) => new = old

DeleteConfirmed ==
    /\ lastOp'.op = "ConfirmDeleteTechnicalProject"
    /\ plan_state' # plan_state

\* C28: confirming the deletion of technical project P removes P from
\* technical_projects, removes every assignment that references P and every
\* Allocation left with no assignments; the assignments to other projects
\* keep their project id and percentage, and the non-empty Allocations that
\* never referenced P are unchanged.
C28_DeleteRemovesProjectAndItsAssignments ==
    [][DeleteConfirmed =>
          \E id \in DeletedProjects(plan_state, plan_state') :
              DeletedFrom(plan_state, plan_state', id)]_vars

\* A delete has left half of a split cell behind: an Allocation with the one
\* assignment to the other project, at the percentage it had.
C28_Witness ==
    /\ lastOp.op = "ConfirmDeleteTechnicalProject"
    /\ \E k \in DOMAIN plan_state.allocations :
          /\ Len(plan_state.allocations[k].assignments) = 1
          /\ plan_state.allocations[k].assignments[1].percentage < MaxPercentage
    /\ Len(plan_state.allocations) < Len(create_sample_plan(1)[2].allocations)

------------------------------------------------------------------------------
(* The cell the paintbrush writes and the cells it leaves                  *)
(* (specification SpecPaint).                                              *)

AllocationsAtCell(allocations, team_member_id, week_start) ==
    SelectSeq(allocations, LAMBDA a : AtCell(a, team_member_id, week_start))

AllocationsElsewhere(allocations, team_member_id, week_start) ==
    SelectSeq(allocations, LAMBDA a : ~AtCell(a, team_member_id, week_start))

\* What the cell holds after a call that returned true: nothing for
\* SelectedProject::None, one Allocation with the one assignment (p, 100)
\* for Technical(p).
PaintedCell(selected_project, team_member_id, week_start) ==
    IF selected_project = SelectedNone THEN << >>
    ELSE <<[team_member_id |-> team_member_id,
            week_start_date |-> week_start,
            assignments |-> <<[technical_project_id |-> selected_project[1],
                               percentage |-> 100]>>]>>

\* C29: allocate_project_to_cell(Technical(p), member, week) for an existing
\* project p leaves the cell (member, week) with exactly one Allocation
\* holding exactly the assignment (p, 100), whatever the cell held before,
\* and leaves the Allocation of every other (member, week) key unchanged;
\* SelectedProject::None leaves the cell with no Allocation and every other
\* cell unchanged.
C29_PaintWritesOneCell ==
    (output # None /\ output[1].ok) =>
        /\ AllocationsAtCell(output[1].state.allocations, input.team_member_id,
                             input.week_start)
             = PaintedCell(input.selected_project, input.team_member_id,
                           input.week_start)
        /\ AllocationsElsewhere(output[1].state.allocations, input.team_member_id,
                                input.week_start)
             = AllocationsElsewhere(input.state.allocations, input.team_member_id,
                                    input.week_start)

\* A project has been painted over a cell that was split between two others,
\* in a plan with allocations in other cells.
C29_Witness ==
    /\ output # None
    /\ output[1].ok
    /\ input.selected_project = Technical(NewUuid(1, 12))
    /\ Len(ProjectsAtCell(input.state.allocations, input.team_member_id,
                          input.week_start)) = 2
    /\ AllocationsElsewhere(input.state.allocations, input.team_member_id,
                            input.week_start) # << >>

=============================================================================
